---- MODULE Spec2Model ----
(***************************************************************************)
(* A model of cs336_data/deduplication.py: the exact line deduplicator     *)
(* (exact_line_deduplication) and the fuzzy document deduplicator          *)
(* (minhash_deduplication) with the functions they are built from.         *)
(*                                                                         *)
(* The file system is part of the state: fs maps every existing path       *)
(* <<directory, base name>> to its content.  Each pipeline is a sequential *)
(* program; pc is its position, and one action is one iteration of one of  *)
(* its loops or one of its straight-line phases.                           *)
(***************************************************************************)
EXTENDS Integers, Sequences, FiniteSets, TLC

VARIABLES
    \* the environment and the arguments of the call (never assigned)
    fs0,              \* the file system when the pipeline was called
    unwritable,       \* paths whose open(path, 'w') raises IOError
    mkdir_fails,      \* Path.mkdir raises
    input_files,      \* argument: list of paths
    output_directory, \* argument
    call,             \* 1 in the first call of the pipeline, 2 in a call after it
    first_run,        \* what the first call of minhash_deduplication computed
    num_hashes, num_bands, ngrams, jaccard_threshold,  \* arguments
    \* the running pipeline
    fs,               \* the file system: [existing paths -> content]
    out_dir_made,     \* output_dir.mkdir() has returned
    pc,               \* position in the running pipeline
    idx,              \* index of the running for loop
    opened,           \* every open() call so far: <<path, mode>>
    written,          \* every out_file.write / f.write call so far: <<path, data>>
    log,              \* the warnings printed so far
    \* exact_line_deduplication
    line_counter,     \* count_line_frequency: Counter of line hashes
    unique_line_hashes,
    \* minhash_deduplication
    doc_order,        \* insertion order of the keys of doc_ngrams
    doc_text, doc_ngrams, doc_signatures,
    buckets,          \* apply_lsh's result: list of [key, docs] in insertion order
    candidates,       \* candidate_buckets
    docs_to_remove,
    \* find_duplicate_clusters
    duplicates,       \* dict: document -> set of documents
    jaccard_calls,    \* every compute_jaccard_similarity call so far: <<doc1, doc2>>
    processed, clusters, cluster, queue

envVars == <<fs0, unwritable, mkdir_fails, input_files, output_directory, call,
             first_run,
             num_hashes, num_bands, ngrams, jaccard_threshold>>

exactVars == <<line_counter, unique_line_hashes>>

docVars == <<doc_order, doc_text, doc_ngrams, doc_signatures>>

lshVars == <<buckets, candidates>>

clusterVars == <<duplicates, jaccard_calls, processed, clusters, cluster, queue>>

vars == <<envVars, fs, out_dir_made, pc, idx, opened, written, log, exactVars,
          docVars, lshVars, docs_to_remove, clusterVars>>

\* no call has returned yet
NoRun == [signatures |-> <<>>, clusters |-> {}]

(***************************************************************************)
(* Bounds of the model.                                                    *)
(***************************************************************************)
MaxLines == 2
MaxFaults == 1

(***************************************************************************)
(* Paths.                                                                  *)
(***************************************************************************)
BaseName(path) == path[2]

OutputPath(dir, path) == <<dir, BaseName(path)>>

SeqToSet(s) == {s[i] : i \in 1..Len(s)}

(***************************************************************************)
(* Exact line deduplication.                                               *)
(*                                                                         *)
(* A raw line, as `for line in f` yields it, is <<text, terminated>>: the  *)
(* text and whether the line terminator follows it.  Only the last line of *)
(* a file can lack its terminator.  A line file is [lines, bad]: its       *)
(* decodable lines, and whether undecodable bytes follow them, in which    *)
(* case iterating the file yields the lines and then raises                *)
(* UnicodeDecodeError.                                                     *)
(***************************************************************************)
LineTexts == {"x", "y", "z"}

RawLines == LineTexts \X BOOLEAN

\* hashlib.md5(line.encode('utf-8')).hexdigest() of the model's raw lines
Mut_hash_line(line) ==
    CASE line[1] = "x" -> "401b30e3b8b5d629635a5c613cdb7919"
      [] line[1] = "y" -> "009520053b00386d1173f3988c55d192"
      [] line[1] = "z" -> "a8a78d0ff555c931f045b6f448129846"

hash_line(line) ==
    CASE line = <<"x", TRUE>>  -> "401b30e3b8b5d629635a5c613cdb7919"
      [] line = <<"x", FALSE>> -> "9dd4e461268c8034f5c8564e155c67a6"
      [] line = <<"y", TRUE>>  -> "009520053b00386d1173f3988c55d192"
      [] line = <<"y", FALSE>> -> "415290769594460e2e485922904f345d"
      [] line = <<"z", TRUE>>  -> "a8a78d0ff555c931f045b6f448129846"
      [] line = <<"z", FALSE>> -> "fbade9e36a3f36d3d676c1b808451dd7"

Digests == {hash_line(l) : l \in RawLines}

EmptyCounter == [h \in Digests |-> 0]

\* line_counter[line_hash] += 1 for every line of lines, in order
RECURSIVE CountLines(_, _)
CountLines(counter, lines) ==
    IF lines = <<>> THEN counter
    ELSE CountLines([counter EXCEPT ![hash_line(Head(lines))] = @ + 1], Tail(lines))

Mut_UniqueLineHashes(counter) == {h \in DOMAIN counter : counter[h] >= 1}

UniqueLineHashes(counter) == {h \in DOMAIN counter : counter[h] = 1}

\* the first of the lines to write is left out
Mut_KeptLines(lines, unique) ==
    LET kept == SelectSeq(lines, LAMBDA l : hash_line(l) \in unique)
    IN IF kept = <<>> THEN kept ELSE Tail(kept)

\* the lines of a file that the second pass writes
KeptLines(lines, unique) == SelectSeq(lines, LAMBDA l : hash_line(l) \in unique)

EmptyFile == [lines |-> <<>>, bad |-> FALSE]

\* open(path, 'w'): the file is created, or truncated when it exists
OpenForWrite(files, path, empty) ==
    [p \in DOMAIN files \cup {path} |-> IF p = path THEN empty ELSE files[p]]

ExactMkdir ==
    /\ pc = "exact_start"
    /\ IF mkdir_fails
       THEN pc' = "raised" /\ UNCHANGED out_dir_made
       ELSE pc' = "count" /\ out_dir_made' = TRUE
    /\ UNCHANGED <<envVars, fs, idx, opened, written, log, exactVars,
                   docVars, lshVars, docs_to_remove, clusterVars>>

\* one iteration of the loop of count_line_frequency
CountFile ==
    /\ pc = "count"
    /\ idx <= Len(input_files)
    /\ LET file_path == input_files[idx] IN
         IF file_path \notin DOMAIN fs
         THEN /\ log' = Append(log, <<"could_not_process", file_path>>)
              /\ UNCHANGED line_counter
         ELSE /\ line_counter' = CountLines(line_counter, fs[file_path].lines)
              /\ log' = IF fs[file_path].bad
                        THEN Append(log, <<"could_not_process", file_path>>)
                        ELSE log
    /\ opened' = Append(opened, <<input_files[idx], "r">>)
    /\ idx' = idx + 1
    /\ UNCHANGED <<envVars, fs, out_dir_made, pc, written, unique_line_hashes,
                   docVars, lshVars, docs_to_remove, clusterVars>>

\* count_line_frequency returns; the set of hashes of frequency 1 is built
CountDone ==
    /\ pc = "count"
    /\ idx > Len(input_files)
    /\ unique_line_hashes' = UniqueLineHashes(line_counter)
    /\ pc' = "rewrite"
    /\ idx' = 1
    /\ UNCHANGED <<envVars, fs, out_dir_made, opened, written, log, line_counter,
                   docVars, lshVars, docs_to_remove, clusterVars>>

\* one iteration of the second loop of exact_line_deduplication
RewriteFile ==
    /\ pc = "rewrite"
    /\ idx <= Len(input_files)
    /\ LET input_path == input_files[idx]
           output_path == OutputPath(output_directory, input_path)
       IN /\ opened' = opened \o (IF input_path \in DOMAIN fs
                                   THEN << <<input_path, "r">>, <<output_path, "w">> >>
                                   ELSE << <<input_path, "r">> >>)
          /\ IF input_path \notin DOMAIN fs \/ output_path \in unwritable
             THEN /\ log' = Append(log, <<"error_processing", input_path>>)
                  /\ UNCHANGED <<fs, written>>
             ELSE LET truncated == OpenForWrite(fs, output_path, EmptyFile)
                      in_file == truncated[input_path]
                      kept == KeptLines(in_file.lines, unique_line_hashes)
                  IN /\ fs' = [truncated EXCEPT ![output_path].lines = kept]
                     /\ written' = written
                                     \o [i \in 1..Len(kept) |-> <<output_path, kept[i]>>]
                     /\ log' = IF in_file.bad
                               THEN Append(log, <<"error_processing", input_path>>)
                               ELSE log
    /\ idx' = idx + 1
    /\ UNCHANGED <<envVars, out_dir_made, pc, exactVars,
                   docVars, lshVars, docs_to_remove, clusterVars>>

ExactReturn ==
    /\ pc = "rewrite"
    /\ idx > Len(input_files)
    /\ pc' = "done"
    /\ UNCHANGED <<envVars, fs, out_dir_made, idx, opened, written, log, exactVars,
                   docVars, lshVars, docs_to_remove, clusterVars>>

(***************************************************************************)
(* The calls of exact_line_deduplication that the model runs.              *)
(***************************************************************************)
\* the line files of at most MaxLines lines; the lines that are read before a
\* decoding error are whole lines, terminator included
LineFiles ==
    LET seqs == UNION {[1..n -> RawLines] : n \in 0..MaxLines}
    IN {[lines |-> s, bad |-> FALSE] :
          s \in {t \in seqs : \A i \in 1..(Len(t) - 1) : t[i][2]}}
       \cup {[lines |-> s, bad |-> TRUE] :
          s \in {t \in seqs : \A i \in 1..Len(t) : t[i][2]}}

\* the argument lists: up to renaming, every way two paths can relate to each
\* other and to the output directory "out"
Layouts ==
    { << <<"in", "a">> >>,
      << <<"out", "a">> >>,
      << <<"in", "a">>, <<"in", "b">> >>,
      << <<"in", "a">>, <<"in2", "a">> >>,
      << <<"in", "a">>, <<"in", "a">> >>,
      << <<"in", "a">>, <<"out", "b">> >>,
      << <<"out", "a">>, <<"in", "b">> >>,
      << <<"in", "a">>, <<"out", "a">> >>,
      << <<"out", "a">>, <<"in", "a">> >> }

\* the corpus of the specification's example: A = [x, y, x], B = [y, z]
ExampleLayout == << <<"in", "a">>, <<"in", "b">> >>

ExampleFs ==
    ( <<"in", "a">> :> [lines |-> << <<"x", TRUE>>, <<"y", TRUE>>, <<"x", TRUE>> >>,
                        bad |-> FALSE] )
    @@ ( <<"in", "b">> :> [lines |-> << <<"y", TRUE>>, <<"z", TRUE>> >>, bad |-> FALSE] )

\* the variables of minhash_deduplication while the other pipeline runs
FuzzyIdle ==
    /\ num_hashes = 0 /\ num_bands = 0 /\ ngrams = 0 /\ jaccard_threshold = <<0, 1>>
    /\ doc_order = <<>> /\ doc_text = <<>> /\ doc_ngrams = <<>> /\ doc_signatures = <<>>
    /\ buckets = <<>> /\ candidates = <<>> /\ docs_to_remove = {}
    /\ duplicates = <<>> /\ jaccard_calls = <<>>
    /\ processed = {} /\ clusters = <<>> /\ cluster = <<>> /\ queue = <<>>

Faults(files) ==
    Cardinality({p \in DOMAIN files : files[p].bad})
    + Cardinality(SeqToSet(input_files) \ DOMAIN files)
    + Cardinality(unwritable)
    + (IF mkdir_fails THEN 1 ELSE 0)

InitExact ==
    /\ output_directory = "out"
    /\ \/ /\ input_files \in Layouts
          /\ \E present \in SUBSET SeqToSet(input_files) :
                fs \in [present -> LineFiles]
          /\ unwritable \in SUBSET {OutputPath(output_directory, input_files[i]) :
                                        i \in 1..Len(input_files)}
          /\ mkdir_fails \in BOOLEAN
          /\ mkdir_fails => \A p \in DOMAIN fs : p[1] # output_directory
          /\ Faults(fs) <= MaxFaults
       \/ /\ input_files = ExampleLayout
          /\ fs = ExampleFs
          /\ unwritable = {}
          /\ mkdir_fails = FALSE
    /\ fs0 = fs
    /\ out_dir_made = FALSE
    /\ call = 1 /\ first_run = NoRun
    /\ pc = "exact_start"
    /\ idx = 1
    /\ line_counter = EmptyCounter
    /\ unique_line_hashes = {}
    /\ opened = <<>>
    /\ written = <<>>
    /\ log = <<>>
    /\ FuzzyIdle

\* the paths in a list of open() calls that were opened for writing, each once,
\* in the order of their first opening
RECURSIVE OpenedOutputs(_, _)
OpenedOutputs(calls, failing) ==
    IF calls = <<>> THEN <<>>
    ELSE LET rest == OpenedOutputs(SubSeq(calls, 1, Len(calls) - 1), failing)
             last == calls[Len(calls)]
         IN IF last[2] = "w" /\ last[1] \notin failing /\ last[1] \notin SeqToSet(rest)
            THEN Append(rest, last[1])
            ELSE rest

OutputDirs == {"out", "out2"}

\* exact_line_deduplication has returned and is called again, on the files that
\* the first call has written
ExactAgain ==
    /\ pc = "done"
    /\ call = 1
    /\ call' = 2
    /\ input_files' = OpenedOutputs(opened, unwritable)
    /\ output_directory' \in OutputDirs
    /\ unwritable' \in SUBSET {OutputPath(output_directory', input_files'[i]) :
                                   i \in 1..Len(input_files')}
    /\ mkdir_fails' \in BOOLEAN
    /\ mkdir_fails' => \A p \in DOMAIN fs : p[1] # output_directory'
    /\ Cardinality(unwritable') + (IF mkdir_fails' THEN 1 ELSE 0) <= MaxFaults
    /\ fs0' = fs
    /\ first_run' = first_run
    /\ out_dir_made' = FALSE
    /\ pc' = "exact_start"
    /\ idx' = 1
    /\ line_counter' = EmptyCounter
    /\ unique_line_hashes' = {}
    /\ opened' = <<>> /\ written' = <<>> /\ log' = <<>>
    /\ UNCHANGED <<fs, num_hashes, num_bands, ngrams, jaccard_threshold,
                   docVars, lshVars, docs_to_remove, clusterVars>>

NextExact ==
    ExactMkdir \/ CountFile \/ CountDone \/ RewriteFile \/ ExactReturn \/ ExactAgain

SpecExact == InitExact /\ [][NextExact]_vars

(***************************************************************************)
(* What the claims about exact line deduplication speak of.                *)
(***************************************************************************)
RECURSIVE CountIn(_, _)
CountIn(x, s) == IF s = <<>> THEN 0
                 ELSE (IF Head(s) = x THEN 1 ELSE 0) + CountIn(x, Tail(s))

\* the lines of the i-th input file when the pipeline was called
InputLines(i) == IF input_files[i] \in DOMAIN fs0 THEN fs0[input_files[i]].lines ELSE <<>>

RECURSIVE SumOver(_, _)
SumOver(f, n) == IF n = 0 THEN 0 ELSE f[n] + SumOver(f, n - 1)

\* how often a raw line occurs in all input files together
Occurrences(line) ==
    SumOver([i \in 1..Len(input_files) |-> CountIn(line, InputLines(i))], Len(input_files))

\* how often a text occurs as a line, with or without a terminator after it
TextOccurrences(text) == Occurrences(<<text, TRUE>>) + Occurrences(<<text, FALSE>>)

AllReadable ==
    \A i \in 1..Len(input_files) :
        input_files[i] \in DOMAIN fs0 /\ ~fs0[input_files[i]].bad

DistinctBaseNames ==
    \A i, j \in 1..Len(input_files) :
        i # j => BaseName(input_files[i]) # BaseName(input_files[j])

OutputWritable == ~mkdir_fails /\ unwritable = {}

InputsOutsideOutput ==
    \A i \in 1..Len(input_files) : input_files[i][1] # output_directory

FilesIn(dir) == {p \in DOMAIN fs : p[1] = dir}

\* the output directory holds no file when the pipeline is called
OutputDirEmptyBefore == \A p \in DOMAIN fs0 : p[1] # output_directory

\* the output directory holds one file per input file, under its base name, and
\* it is the input's lines of corpus-wide occurrence count 1, in their order
ExactOutputIsTheUniqueLines ==
    /\ FilesIn(output_directory) =
           {OutputPath(output_directory, input_files[i]) : i \in 1..Len(input_files)}
    /\ \A i \in 1..Len(input_files) :
          LET out == OutputPath(output_directory, input_files[i]) IN
             /\ out \in DOMAIN fs
             /\ ~fs[out].bad
             /\ fs[out].lines = SelectSeq(InputLines(i), LAMBDA l : Occurrences(l) = 1)

ExactOver == pc \in {"done", "raised"}

C2_AsStated ==
    \A k \in 1..Len(written) : TextOccurrences(written[k][2][1]) < 2

\* C2 (amended): a raw line, its terminator or the lack of one included, that
\* occurs two or more times in the corpus is written to no output file; and
\* A = [x, y, x], B = [y, z], when their outputs can be opened for writing,
\* give A' = [], B' = [z].
C2_DuplicateNeverWritten ==
    /\ \A k \in 1..Len(written) : Occurrences(written[k][2]) < 2
    /\ (fs0 = ExampleFs /\ input_files = ExampleLayout /\ unwritable = {} /\ pc = "done") =>
          /\ fs[<<"out", "a">>].lines = <<>>
          /\ fs[<<"out", "b">>].lines = << <<"z", TRUE>> >>

\* the run over the example corpus has finished and has written z alone
C2_Witness ==
    /\ fs0 = ExampleFs /\ pc = "done"
    /\ Occurrences(<<"x", TRUE>>) = 2
    /\ fs[<<"out", "a">>].lines = <<>>
    /\ written = << <<<<"out", "b">>, <<"z", TRUE>>>> >>

(***************************************************************************)
(* Texts.  A text is a sequence of characters, each a string: a letter, a  *)
(* punctuation or whitespace character, "e_acute" (U+00E9, the precomposed *)
(* letter) or "acute" (U+0301, the combining mark).  A document file is    *)
(* [chars, bad]: its characters, and whether it holds undecodable bytes,   *)
(* in which case f.read() raises UnicodeDecodeError.                       *)
(***************************************************************************)
LowerLetters == {"a", "b", "c", "d", "e"}

UpperLetters == {"A", "B"}

RECURSIVE FlatMap(_, _)
FlatMap(F(_), s) == IF s = <<>> THEN <<>> ELSE F(Head(s)) \o FlatMap(F, Tail(s))

MapSeq(F(_), s) == [i \in 1..Len(s) |-> F(s[i])]

Min(S) == CHOOSE x \in S : \A y \in S : x <= y

\* s[lo:hi] of Python, indices from 0, a negative index counted from the end
PySlice(s, lo, hi) ==
    LET n == Len(s)
        clip(k) == IF k < 0 THEN (IF k + n < 0 THEN 0 ELSE k + n)
                   ELSE (IF k > n THEN n ELSE k)
    IN SubSeq(s, clip(lo) + 1, clip(hi))

\* f.read() of a file opened in text mode: universal newlines
RECURSIVE ReadText(_)
ReadText(chars) ==
    IF chars = <<>> THEN <<>>
    ELSE IF Head(chars) = "\r"
    THEN <<"\n">> \o ReadText(IF Len(chars) > 1 /\ chars[2] = "\n"
                              THEN Tail(Tail(chars)) ELSE Tail(chars))
    ELSE <<Head(chars)>> \o ReadText(Tail(chars))

\* unicodedata.normalize('NFD', c)
Mut_Nfd(c) == <<c>>

Nfd(c) == IF c = "e_acute" THEN <<"e", "acute">> ELSE <<c>>

\* c.lower()
Mut_Lower(c) == c

Lower(c) == CASE c = "A" -> "a" [] c = "B" -> "b" [] OTHER -> c

\* \w of re: alphanumeric characters and the underscore
IsWord(c) == c \in LowerLetters \cup UpperLetters \cup {"e_acute", "_"}

\* \s of re, and the characters str.split() and str.strip() take for whitespace
IsSpace(c) == c \in {" ", "\n", "\r", "\t"}

\* unicodedata.combining(c)
Combining(c) == IF c = "acute" THEN 230 ELSE 0

\* re.sub(r'\s+', ' ', text)
RECURSIVE CollapseSpace(_)
CollapseSpace(text) ==
    IF text = <<>> THEN <<>>
    ELSE IF IsSpace(Head(text))
    THEN IF Len(text) > 1 /\ IsSpace(text[2])
         THEN CollapseSpace(Tail(text))
         ELSE <<" ">> \o CollapseSpace(Tail(text))
    ELSE <<Head(text)>> \o CollapseSpace(Tail(text))

\* text.strip()
RECURSIVE Strip(_)
Strip(text) ==
    IF text = <<>> THEN <<>>
    ELSE IF IsSpace(Head(text)) THEN Strip(Tail(text))
    ELSE IF IsSpace(text[Len(text)]) THEN Strip(SubSeq(text, 1, Len(text) - 1))
    ELSE text

normalize_text(text) ==
    LET nfd == FlatMap(Nfd, text)
        lowered == MapSeq(Lower, nfd)
        nopunct == MapSeq(LAMBDA c : IF ~IsWord(c) /\ ~IsSpace(c) THEN " " ELSE c, lowered)
        spaced == Strip(CollapseSpace(nopunct))
    IN SelectSeq(spaced, LAMBDA c : Combining(c) = 0)

\* text.split(): the maximal runs of characters that are not whitespace
RECURSIVE SplitFrom(_, _)
SplitFrom(text, word) ==
    IF text = <<>> THEN (IF word = <<>> THEN <<>> ELSE <<word>>)
    ELSE IF IsSpace(Head(text))
    THEN (IF word = <<>> THEN <<>> ELSE <<word>>) \o SplitFrom(Tail(text), <<>>)
    ELSE SplitFrom(Tail(text), Append(word, Head(text)))

Split(text) == SplitFrom(text, <<>>)

\* ' '.join(words)
RECURSIVE Join(_)
Join(words) ==
    IF words = <<>> THEN <<>>
    ELSE IF Len(words) = 1 THEN words[1]
    ELSE words[1] \o <<" ">> \o Join(Tail(words))

Mut_create_ngrams(text, n) ==
    LET words == Split(text)
    IN {Join(PySlice(words, i, i + n + 1)) : i \in 0..(Len(words) - n - 1)}

create_ngrams(text, n) ==
    LET words == Split(text)
    IN {Join(PySlice(words, i, i + n)) : i \in 0..(Len(words) - n)}

\* mmh3.hash(ngram, seed): MurmurHash3 (x86, 32 bits, signed) of the n-grams of
\* the model, for the seeds 42 .. 45
Mmh3Table ==
    (<<<<>>, 42>> :> 142593372)
    @@ (<<<<>>, 43>> :> -582727230)
    @@ (<<<<>>, 44>> :> 2129619989)
    @@ (<<<<>>, 45>> :> -111286646)
    @@ (<<<<"a">>, 42>> :> -1293573533)
    @@ (<<<<"a">>, 43>> :> -1989749339)
    @@ (<<<<"a">>, 44>> :> 1468316805)
    @@ (<<<<"a">>, 45>> :> -693072104)
    @@ (<<<<"a", " ", "a">>, 42>> :> 1635259806)
    @@ (<<<<"a", " ", "a">>, 43>> :> -2109970129)
    @@ (<<<<"a", " ", "a">>, 44>> :> -83616653)
    @@ (<<<<"a", " ", "a">>, 45>> :> 1156141020)
    @@ (<<<<"a", " ", "b">>, 42>> :> 1045297288)
    @@ (<<<<"a", " ", "b">>, 43>> :> 30409924)
    @@ (<<<<"a", " ", "b">>, 44>> :> 1223134095)
    @@ (<<<<"a", " ", "b">>, 45>> :> -1033437178)
    @@ (<<<<"a", " ", "b", " ", "c">>, 42>> :> 480116296)
    @@ (<<<<"a", " ", "b", " ", "c">>, 43>> :> 1693350513)
    @@ (<<<<"a", " ", "b", " ", "c">>, 44>> :> 1291177141)
    @@ (<<<<"a", " ", "b", " ", "c">>, 45>> :> -1690283585)
    @@ (<<<<"a", " ", "b", " ", "d">>, 42>> :> -146009184)
    @@ (<<<<"a", " ", "b", " ", "d">>, 43>> :> 1053334940)
    @@ (<<<<"a", " ", "b", " ", "d">>, 44>> :> 1340924477)
    @@ (<<<<"a", " ", "b", " ", "d">>, 45>> :> -1905500290)
    @@ (<<<<"a", " ", "c">>, 42>> :> -324777242)
    @@ (<<<<"a", " ", "c">>, 43>> :> 2120252114)
    @@ (<<<<"a", " ", "c">>, 44>> :> -2084964679)
    @@ (<<<<"a", " ", "c">>, 45>> :> 445876330)
    @@ (<<<<"a", " ", "d">>, 42>> :> -1514759619)
    @@ (<<<<"a", " ", "d">>, 43>> :> 342349314)
    @@ (<<<<"a", " ", "d">>, 44>> :> -94961420)
    @@ (<<<<"a", " ", "d">>, 45>> :> 1252630792)
    @@ (<<<<"a", " ", "e">>, 42>> :> -1097374818)
    @@ (<<<<"a", " ", "e">>, 43>> :> -1337604883)
    @@ (<<<<"a", " ", "e">>, 44>> :> 1018033614)
    @@ (<<<<"a", " ", "e">>, 45>> :> 737415265)
    @@ (<<<<"a", "_", "b">>, 42>> :> 350854971)
    @@ (<<<<"a", "_", "b">>, 43>> :> -299705747)
    @@ (<<<<"a", "_", "b">>, 44>> :> -1010831852)
    @@ (<<<<"a", "_", "b">>, 45>> :> 1694245250)
    @@ (<<<<"a", "_", "b", " ", "c">>, 42>> :> -1105471734)
    @@ (<<<<"a", "_", "b", " ", "c">>, 43>> :> -898446288)
    @@ (<<<<"a", "_", "b", " ", "c">>, 44>> :> -2077923338)
    @@ (<<<<"a", "_", "b", " ", "c">>, 45>> :> -2032673734)
    @@ (<<<<"b">>, 42>> :> 861554165)
    @@ (<<<<"b">>, 43>> :> 1479689872)
    @@ (<<<<"b">>, 44>> :> 1302310875)
    @@ (<<<<"b">>, 45>> :> -354518709)
    @@ (<<<<"b", " ", "a">>, 42>> :> -2122037009)
    @@ (<<<<"b", " ", "a">>, 43>> :> 1745211467)
    @@ (<<<<"b", " ", "a">>, 44>> :> -317813540)
    @@ (<<<<"b", " ", "a">>, 45>> :> 756059343)
    @@ (<<<<"b", " ", "b">>, 42>> :> -1546636816)
    @@ (<<<<"b", " ", "b">>, 43>> :> 1756444424)
    @@ (<<<<"b", " ", "b">>, 44>> :> -577650059)
    @@ (<<<<"b", " ", "b">>, 45>> :> -1711735579)
    @@ (<<<<"b", " ", "c">>, 42>> :> -1910611102)
    @@ (<<<<"b", " ", "c">>, 43>> :> 1620143852)
    @@ (<<<<"b", " ", "c">>, 44>> :> -1789746677)
    @@ (<<<<"b", " ", "c">>, 45>> :> -188742976)
    @@ (<<<<"b", " ", "c", " ", "d">>, 42>> :> -1408452237)
    @@ (<<<<"b", " ", "c", " ", "d">>, 43>> :> 2136261726)
    @@ (<<<<"b", " ", "c", " ", "d">>, 44>> :> 2097726656)
    @@ (<<<<"b", " ", "c", " ", "d">>, 45>> :> 2082023076)
    @@ (<<<<"b", " ", "d">>, 42>> :> -1975313858)
    @@ (<<<<"b", " ", "d">>, 43>> :> 216724153)
    @@ (<<<<"b", " ", "d">>, 44>> :> -1063023846)
    @@ (<<<<"b", " ", "d">>, 45>> :> 2043020749)
    @@ (<<<<"b", " ", "e">>, 42>> :> 227768521)
    @@ (<<<<"b", " ", "e">>, 43>> :> 1949476301)
    @@ (<<<<"b", " ", "e">>, 44>> :> -716221155)
    @@ (<<<<"b", " ", "e">>, 45>> :> 662821550)
    @@ (<<<<"c">>, 42>> :> 1701913768)
    @@ (<<<<"c">>, 43>> :> 1285931333)
    @@ (<<<<"c">>, 44>> :> -1377334951)
    @@ (<<<<"c">>, 45>> :> -531590090)
    @@ (<<<<"c", " ", "a">>, 42>> :> 1666978814)
    @@ (<<<<"c", " ", "a">>, 43>> :> -1219043287)
    @@ (<<<<"c", " ", "a">>, 44>> :> -446803124)
    @@ (<<<<"c", " ", "a">>, 45>> :> -456900829)
    @@ (<<<<"c", " ", "b">>, 42>> :> -1777023238)
    @@ (<<<<"c", " ", "b">>, 43>> :> -1831131696)
    @@ (<<<<"c", " ", "b">>, 44>> :> -802097951)
    @@ (<<<<"c", " ", "b">>, 45>> :> -248617859)
    @@ (<<<<"c", " ", "c">>, 42>> :> 325543186)
    @@ (<<<<"c", " ", "c">>, 43>> :> 617936003)
    @@ (<<<<"c", " ", "c">>, 44>> :> 1268447259)
    @@ (<<<<"c", " ", "c">>, 45>> :> -1602761880)
    @@ (<<<<"c", " ", "d">>, 42>> :> 681949734)
    @@ (<<<<"c", " ", "d">>, 43>> :> 1406815612)
    @@ (<<<<"c", " ", "d">>, 44>> :> 1673366742)
    @@ (<<<<"c", " ", "d">>, 45>> :> 1031483973)
    @@ (<<<<"c", " ", "e">>, 42>> :> -747909342)
    @@ (<<<<"c", " ", "e">>, 43>> :> -1704911599)
    @@ (<<<<"c", " ", "e">>, 44>> :> -811207576)
    @@ (<<<<"c", " ", "e">>, 45>> :> -2001070738)
    @@ (<<<<"d">>, 42>> :> -539927110)
    @@ (<<<<"d">>, 43>> :> 40190139)
    @@ (<<<<"d">>, 44>> :> 1712774678)
    @@ (<<<<"d">>, 45>> :> 1217811890)
    @@ (<<<<"d", " ", "a">>, 42>> :> 1648423396)
    @@ (<<<<"d", " ", "a">>, 43>> :> -2083609266)
    @@ (<<<<"d", " ", "a">>, 44>> :> 1364334909)
    @@ (<<<<"d", " ", "a">>, 45>> :> 1794060445)
    @@ (<<<<"d", " ", "b">>, 42>> :> -2119894148)
    @@ (<<<<"d", " ", "b">>, 43>> :> 1160260865)
    @@ (<<<<"d", " ", "b">>, 44>> :> 327174852)
    @@ (<<<<"d", " ", "b">>, 45>> :> -1824387329)
    @@ (<<<<"d", " ", "c">>, 42>> :> 1022038727)
    @@ (<<<<"d", " ", "c">>, 43>> :> -1069155744)
    @@ (<<<<"d", " ", "c">>, 44>> :> -1260399625)
    @@ (<<<<"d", " ", "c">>, 45>> :> -1904909756)
    @@ (<<<<"d", " ", "d">>, 42>> :> 2038130726)
    @@ (<<<<"d", " ", "d">>, 43>> :> 1467004276)
    @@ (<<<<"d", " ", "d">>, 44>> :> 908542353)
    @@ (<<<<"d", " ", "d">>, 45>> :> -616833147)
    @@ (<<<<"d", " ", "e">>, 42>> :> 931991448)
    @@ (<<<<"d", " ", "e">>, 43>> :> 845444216)
    @@ (<<<<"d", " ", "e">>, 44>> :> -165522660)
    @@ (<<<<"d", " ", "e">>, 45>> :> 1058158276)
    @@ (<<<<"e">>, 42>> :> -458846450)
    @@ (<<<<"e">>, 43>> :> 949029813)
    @@ (<<<<"e">>, 44>> :> 1134964450)
    @@ (<<<<"e">>, 45>> :> -1347150380)
    @@ (<<<<"e", " ", "a">>, 42>> :> -912001419)
    @@ (<<<<"e", " ", "a">>, 43>> :> 503183763)
    @@ (<<<<"e", " ", "a">>, 44>> :> 1317912188)
    @@ (<<<<"e", " ", "a">>, 45>> :> 2135786997)
    @@ (<<<<"e", " ", "a", " ", "b">>, 42>> :> 252625596)
    @@ (<<<<"e", " ", "a", " ", "b">>, 43>> :> -402073936)
    @@ (<<<<"e", " ", "a", " ", "b">>, 44>> :> -838960036)
    @@ (<<<<"e", " ", "a", " ", "b">>, 45>> :> -1038290221)
    @@ (<<<<"e", " ", "b">>, 42>> :> -1755968001)
    @@ (<<<<"e", " ", "b">>, 43>> :> 1725067261)
    @@ (<<<<"e", " ", "b">>, 44>> :> 393001743)
    @@ (<<<<"e", " ", "b">>, 45>> :> -460001838)
    @@ (<<<<"e", " ", "c">>, 42>> :> -1690569371)
    @@ (<<<<"e", " ", "c">>, 43>> :> 1053481564)
    @@ (<<<<"e", " ", "c">>, 44>> :> -1175162958)
    @@ (<<<<"e", " ", "c">>, 45>> :> 1215646043)
    @@ (<<<<"e", " ", "d">>, 42>> :> -1667930091)
    @@ (<<<<"e", " ", "d">>, 43>> :> -849731037)
    @@ (<<<<"e", " ", "d">>, 44>> :> 1963340484)
    @@ (<<<<"e", " ", "d">>, 45>> :> 1540347645)
    @@ (<<<<"e", " ", "e">>, 42>> :> -1646758217)
    @@ (<<<<"e", " ", "e">>, 43>> :> 1134800522)
    @@ (<<<<"e", " ", "e">>, 44>> :> 643701491)
    @@ (<<<<"e", " ", "e">>, 45>> :> -1209527644)
    @@ (<<<<"e", "a">>, 42>> :> -35184776)
    @@ (<<<<"e", "a">>, 43>> :> 306802771)
    @@ (<<<<"e", "a">>, 44>> :> 2044660368)
    @@ (<<<<"e", "a">>, 45>> :> 83599225)
    @@ (<<<<"e", "a", " ", "b">>, 42>> :> 336417848)
    @@ (<<<<"e", "a", " ", "b">>, 43>> :> 518891068)
    @@ (<<<<"e", "a", " ", "b">>, 44>> :> 37465687)
    @@ (<<<<"e", "a", " ", "b">>, 45>> :> 865220043)

mmh3_hash(key, seed) == Mmh3Table[<<key, seed>>]

\* seed: int = 42
DefaultSeed == 42

\* float('inf'), which min() compares with the hash values: the model takes the
\* greatest signed 32-bit value, which no hash value exceeds, so that the minimum
\* of it and of a hash value is the hash value
Inf == 2147483647

\* the slot takes the hash value of the n-gram, whatever it holds
Mut_SignatureStep(signature, ngram, seed) ==
    [i \in 1..Len(signature) |-> mmh3_hash(ngram, seed + (i - 1))]

\* the loop over range(num_hashes) for one n-gram:
\* signature[i] = min(signature[i], mmh3.hash(ngram, seed + i))
SignatureStep(signature, ngram, seed) ==
    [i \in 1..Len(signature) |->
        LET hash_value == mmh3_hash(ngram, seed + (i - 1))
        IN IF hash_value < signature[i] THEN hash_value ELSE signature[i]]

\* the loop over the n-grams, in the order in which the set is iterated
RECURSIVE SignatureLoop(_, _, _)
SignatureLoop(signature, order, seed) ==
    IF order = <<>> THEN signature
    ELSE SignatureLoop(SignatureStep(signature, Head(order), seed), Tail(order), seed)

\* every slot is hashed with the seed itself
Mut_compute_minhash_signature(order, n_hashes, seed) ==
    IF order = <<>> THEN [i \in 1..n_hashes |-> 0]
    ELSE [i \in 1..n_hashes |-> Min({mmh3_hash(order[k], seed) : k \in 1..Len(order)})]

\* compute_minhash_signature(ngrams, num_hashes, seed), order being the n-grams
\* of the set in the order in which the for loop goes through them
compute_minhash_signature(order, n_hashes, seed) ==
    IF order = <<>> THEN [i \in 1..n_hashes |-> 0]
    ELSE SignatureLoop([i \in 1..n_hashes |-> Inf], order, seed)

(***************************************************************************)
(* Locality-sensitive hashing.  A dict is a function with the dict's keys  *)
(* for its domain; where the code iterates over a dict, the model keeps    *)
(* the insertion order of the keys beside it.  The dict of buckets is the  *)
(* list of its items, [key, docs], in insertion order.                     *)
(***************************************************************************)
\* hash((band_idx, band)): the hash of a tuple of integers is a 64-bit number,
\* and two keys are one key of the dict when their hashes are equal.  The model
\* writes a hash as the first key that has it: the keys of
\* BandHashCollisions have the hash of the key beside them
\* (hash((1, (836083037, -1394263666))) = hash((0, (2, 2)))
\* = -361540663802121285), and every other key that the model can form has a
\* hash of its own.
BandHashCollisions ==
    [key \in {<<1, <<836083037, -1394263666>>>>} |-> <<0, <<2, 2>>>>]

Mut_BandHash(band_idx, band) == <<0, band>>

BandHash(band_idx, band) ==
    IF <<band_idx, band>> \in DOMAIN BandHashCollisions
    THEN BandHashCollisions[<<band_idx, band>>]
    ELSE <<band_idx, band>>

\* buckets[band_hash].append(doc_path), after buckets[band_hash] = [] for a new key
Mut_AddToBucket(bkts, key, doc) == Append(bkts, [key |-> key, docs |-> <<doc>>])

AddToBucket(bkts, key, doc) ==
    IF \E k \in 1..Len(bkts) : bkts[k].key = key
    THEN [k \in 1..Len(bkts) |->
            IF bkts[k].key = key THEN [bkts[k] EXCEPT !.docs = Append(@, doc)]
            ELSE bkts[k]]
    ELSE Append(bkts, [key |-> key, docs |-> <<doc>>])

\* the loop over the bands of one document, from band_idx on
RECURSIVE LshBands(_, _, _, _, _, _)
LshBands(bkts, doc, signature, band_idx, n_bands, rows_per_band) ==
    IF band_idx >= n_bands THEN bkts
    ELSE LET start_idx == band_idx * rows_per_band
             end_idx == start_idx + rows_per_band
             band == PySlice(signature, start_idx, end_idx)
         IN LshBands(AddToBucket(bkts, BandHash(band_idx, band), doc),
                     doc, signature, band_idx + 1, n_bands, rows_per_band)

\* the loop over the documents
RECURSIVE LshDocs(_, _, _, _, _)
LshDocs(bkts, order, signatures, n_bands, rows_per_band) ==
    IF order = <<>> THEN bkts
    ELSE LshDocs(LshBands(bkts, Head(order), signatures[Head(order)], 0,
                          n_bands, rows_per_band),
                 Tail(order), signatures, n_bands, rows_per_band)

\* num_hashes // num_bands raises ZeroDivisionError
ApplyLshRaises(order, n_bands) == order # <<>> /\ n_bands = 0

Mut_apply_lsh(order, signatures, n_bands) ==
    IF order = <<>> THEN <<>>
    ELSE LshDocs(<<>>, order, signatures, n_bands, Len(signatures[order[1]]))

apply_lsh(order, signatures, n_bands) ==
    IF order = <<>> THEN <<>>
    ELSE LET n_hashes == Len(signatures[order[1]])
             rows_per_band == n_hashes \div n_bands
         IN LshDocs(<<>>, order, signatures, n_bands, rows_per_band)

(***************************************************************************)
(* Jaccard similarity.  A similarity and a threshold are fractions         *)
(* <<numerator, denominator>> with a positive denominator.                 *)
(***************************************************************************)
Mut_compute_jaccard_similarity(set1, set2) ==
    IF set1 = {} /\ set2 = {} THEN <<0, 1>>
    ELSE <<Cardinality(set1 \cap set2), Cardinality(set1 \cup set2)>>

compute_jaccard_similarity(set1, set2) ==
    IF set1 = {} /\ set2 = {} THEN <<1, 1>>
    ELSE <<Cardinality(set1 \cap set2), Cardinality(set1 \cup set2)>>

\* similarity >= jaccard_threshold
Mut_AtLeast(similarity, threshold) ==
    similarity[1] * threshold[2] > threshold[1] * similarity[2]

AtLeast(similarity, threshold) ==
    similarity[1] * threshold[2] >= threshold[1] * similarity[2]

(***************************************************************************)
(* find_duplicate_clusters.                                                *)
(***************************************************************************)
\* the pairs (doc_paths[i], doc_paths[j]), i < j, in the order of the two loops
RECURSIVE PairsFrom(_, _, _)
PairsFrom(doc_paths, i, j) ==
    IF i > Len(doc_paths) THEN <<>>
    ELSE IF j > Len(doc_paths) THEN PairsFrom(doc_paths, i + 1, i + 2)
    ELSE << <<doc_paths[i], doc_paths[j]>> >> \o PairsFrom(doc_paths, i, j + 1)

\* the pairs of all buckets, in the order in which the loops reach them
RECURSIVE AllPairs(_)
AllPairs(cands) ==
    IF cands = <<>> THEN <<>>
    ELSE (IF Len(Head(cands).docs) < 2 THEN <<>> ELSE PairsFrom(Head(cands).docs, 1, 2))
         \o AllPairs(Tail(cands))

\* duplicates.get(doc, [])
DuplicatesOf(dups, doc) == IF doc \in DOMAIN dups THEN dups[doc] ELSE {}

\* duplicates[doc1].add(doc2); duplicates[doc2].add(doc1)
Mut_AddDuplicate(dups, doc1, doc2) ==
    [d \in DOMAIN dups \cup {doc1} |->
        IF d = doc1 THEN DuplicatesOf(dups, d) \cup {doc2} ELSE dups[d]]

AddDuplicate(dups, doc1, doc2) ==
    [d \in DOMAIN dups \cup {doc1, doc2} |->
        DuplicatesOf(dups, d) \cup (IF d = doc1 THEN {doc2} ELSE {})
                              \cup (IF d = doc2 THEN {doc1} ELSE {})]

\* the orders in which a set can be iterated
Orders(S) == {q \in [1..Cardinality(S) -> S] : \A i, j \in DOMAIN q : q[i] = q[j] => i = j}

\* one iteration of the loop over the pairs of a bucket
ConfirmPair ==
    /\ pc = "confirm"
    /\ idx <= Len(AllPairs(candidates))
    /\ LET doc1 == AllPairs(candidates)[idx][1]
           doc2 == AllPairs(candidates)[idx][2]
       IN IF doc1 \in DOMAIN duplicates /\ doc2 \in duplicates[doc1]
          THEN UNCHANGED <<duplicates, jaccard_calls>>
          ELSE LET similarity ==
                       compute_jaccard_similarity(doc_ngrams[doc1], doc_ngrams[doc2])
               IN /\ jaccard_calls' = Append(jaccard_calls, <<doc1, doc2>>)
                  /\ duplicates' = IF AtLeast(similarity, jaccard_threshold)
                                   THEN AddDuplicate(duplicates, doc1, doc2)
                                   ELSE duplicates
    /\ idx' = idx + 1
    /\ UNCHANGED <<envVars, fs, out_dir_made, pc, opened, written, log, exactVars, docVars,
                   lshVars, docs_to_remove, processed, clusters, cluster, queue>>

\* the loop over the buckets is left at any pair
Mut_ConfirmDone ==
    /\ pc = "confirm"
    /\ processed' = {}
    /\ clusters' = <<>>
    /\ pc' = "cluster"
    /\ idx' = 1
    /\ UNCHANGED <<envVars, fs, out_dir_made, opened, written, log, exactVars, docVars,
                   lshVars, docs_to_remove, duplicates, jaccard_calls, cluster, queue>>

\* the loop over the buckets is over
ConfirmDone ==
    /\ pc = "confirm"
    /\ idx > Len(AllPairs(candidates))
    /\ processed' = {}
    /\ clusters' = <<>>
    /\ pc' = "cluster"
    /\ idx' = 1
    /\ UNCHANGED <<envVars, fs, out_dir_made, opened, written, log, exactVars, docVars,
                   lshVars, docs_to_remove, duplicates, jaccard_calls, cluster, queue>>

\* the document that starts a cluster is not added to processed
Mut_ClusterStart ==
    /\ pc = "cluster"
    /\ idx <= Len(doc_order)
    /\ LET doc == doc_order[idx] IN
         IF doc \in processed
         THEN /\ idx' = idx + 1
              /\ UNCHANGED <<pc, processed, cluster, queue>>
         ELSE /\ cluster' = <<doc>>
              /\ processed' = processed
              /\ queue' \in Orders(DuplicatesOf(duplicates, doc))
              /\ pc' = "bfs"
              /\ UNCHANGED idx
    /\ UNCHANGED <<envVars, fs, out_dir_made, opened, written, log, exactVars, docVars,
                   lshVars, docs_to_remove, duplicates, jaccard_calls, clusters>>

\* one iteration of the loop over doc_ngrams.keys(), up to the while loop
ClusterStart ==
    /\ pc = "cluster"
    /\ idx <= Len(doc_order)
    /\ LET doc == doc_order[idx] IN
         IF doc \in processed
         THEN /\ idx' = idx + 1
              /\ UNCHANGED <<pc, processed, cluster, queue>>
         ELSE /\ cluster' = <<doc>>
              /\ processed' = processed \cup {doc}
              /\ queue' \in Orders(DuplicatesOf(duplicates, doc))
              /\ pc' = "bfs"
              /\ UNCHANGED idx
    /\ UNCHANGED <<envVars, fs, out_dir_made, opened, written, log, exactVars, docVars,
                   lshVars, docs_to_remove, duplicates, jaccard_calls, clusters>>

\* the duplicates of next_doc are not added to the queue
Mut_BfsPop ==
    /\ pc = "bfs"
    /\ queue # <<>>
    /\ LET next_doc == Head(queue) IN
         IF next_doc \in processed
         THEN /\ queue' = Tail(queue)
              /\ UNCHANGED <<processed, cluster>>
         ELSE /\ cluster' = Append(cluster, next_doc)
              /\ processed' = processed \cup {next_doc}
              /\ queue' = Tail(queue)
    /\ UNCHANGED <<envVars, fs, out_dir_made, pc, idx, opened, written, log, exactVars, docVars,
                   lshVars, docs_to_remove, duplicates, jaccard_calls, clusters>>

\* one iteration of the while loop
BfsPop ==
    /\ pc = "bfs"
    /\ queue # <<>>
    /\ LET next_doc == Head(queue) IN
         IF next_doc \in processed
         THEN /\ queue' = Tail(queue)
              /\ UNCHANGED <<processed, cluster>>
         ELSE /\ cluster' = Append(cluster, next_doc)
              /\ processed' = processed \cup {next_doc}
              /\ \E more \in Orders(DuplicatesOf(duplicates, next_doc)
                                      \ (processed \cup {next_doc})) :
                    queue' = Tail(queue) \o more
    /\ UNCHANGED <<envVars, fs, out_dir_made, pc, idx, opened, written, log, exactVars, docVars,
                   lshVars, docs_to_remove, duplicates, jaccard_calls, clusters>>

\* the cluster is kept whatever its length
Mut_ClusterEnd ==
    /\ pc = "bfs"
    /\ queue = <<>>
    /\ clusters' = Append(clusters, cluster)
    /\ idx' = idx + 1
    /\ pc' = "cluster"
    /\ UNCHANGED <<envVars, fs, out_dir_made, opened, written, log, exactVars, docVars,
                   lshVars, docs_to_remove, duplicates, jaccard_calls, processed,
                   cluster, queue>>

\* the while loop is over: the cluster is kept when it has more than one document
ClusterEnd ==
    /\ pc = "bfs"
    /\ queue = <<>>
    /\ clusters' = IF Len(cluster) > 1 THEN Append(clusters, cluster) ELSE clusters
    /\ idx' = idx + 1
    /\ pc' = "cluster"
    /\ UNCHANGED <<envVars, fs, out_dir_made, opened, written, log, exactVars, docVars,
                   lshVars, docs_to_remove, duplicates, jaccard_calls, processed,
                   cluster, queue>>

\* return clusters
ClustersReturn ==
    /\ pc = "cluster"
    /\ idx > Len(doc_order)
    /\ pc' = "clustered"
    /\ idx' = 1
    /\ UNCHANGED <<envVars, fs, out_dir_made, opened, written, log, exactVars, docVars,
                   lshVars, docs_to_remove, clusterVars>>

NextClusters == ConfirmPair \/ ConfirmDone \/ ClusterStart \/ BfsPop \/ ClusterEnd
                \/ ClustersReturn

(***************************************************************************)
(* The calls of find_duplicate_clusters that the model runs on their own.  *)
(***************************************************************************)
MaxClusterDocs == 4
MaxBuckets == 2

DocIds == << <<"in", "a">>, <<"in", "b">>, <<"in", "c">>, <<"in", "d">>,
             <<"in", "e">>, <<"in", "f">> >>

\* the n-gram sets of the documents: similarity 1/2 between the first two, 0
\* between the empty set and the others
NgramSets == { {<<"a", " ", "b">>},
               {<<"a", " ", "b">>, <<"b", " ", "c">>},
               {} }

Thresholds == {<<1, 2>>, <<1, 1>>}

\* the lists of documents that apply_lsh can put in a bucket: in the order of
\* the documents, each document once
BucketLists(n) ==
    {q \in UNION {[1..k -> 1..n] : k \in 1..n} : \A i \in 1..(Len(q) - 1) : q[i] < q[i + 1]}

InitClusters ==
    /\ doc_order = SubSeq(DocIds, 1, MaxClusterDocs)
    /\ doc_ngrams \in [SeqToSet(doc_order) -> NgramSets]
    /\ \E lists \in UNION {[1..k -> BucketLists(MaxClusterDocs)] : k \in 0..MaxBuckets} :
          candidates = [k \in 1..Len(lists) |->
                           [key |-> <<k, <<>>>>,
                            docs |-> [i \in 1..Len(lists[k]) |-> doc_order[lists[k][i]]]]]
    /\ jaccard_threshold \in Thresholds
    /\ pc = "confirm"
    /\ idx = 1
    /\ duplicates = <<>> /\ jaccard_calls = <<>>
    /\ processed = {} /\ clusters = <<>> /\ cluster = <<>> /\ queue = <<>>
    /\ fs = <<>> /\ fs0 = <<>> /\ unwritable = {} /\ mkdir_fails = FALSE
    /\ input_files = <<>> /\ output_directory = "out" /\ out_dir_made = FALSE
    /\ call = 1 /\ first_run = NoRun
    /\ num_hashes = 0 /\ num_bands = 0 /\ ngrams = 0
    /\ opened = <<>> /\ written = <<>> /\ log = <<>>
    /\ line_counter = EmptyCounter /\ unique_line_hashes = {}
    /\ doc_text = <<>> /\ doc_signatures = <<>>
    /\ buckets = <<>> /\ docs_to_remove = {}

SpecClusters == InitClusters /\ [][NextClusters]_vars

(***************************************************************************)
(* minhash_deduplication.                                                  *)
(***************************************************************************)
EmptyDoc == [chars |-> <<>>, bad |-> FALSE]

\* f.write(text) of a file opened in text mode on POSIX: "\n" is written as
\* os.linesep, which is "\n"
WriteText(text) == text

\* d[key] = value
Put(d, key, value) == [k \in DOMAIN d \cup {key} |-> IF k = key THEN value ELSE d[k]]

\* the order of the keys of a dict after d[key] = value
PutOrder(order, key) == IF key \in SeqToSet(order) THEN order ELSE Append(order, key)

MinhashMkdir ==
    /\ pc = "minhash_start"
    /\ IF mkdir_fails
       THEN pc' = "raised" /\ UNCHANGED out_dir_made
       ELSE pc' = "read" /\ out_dir_made' = TRUE
    /\ UNCHANGED <<envVars, fs, idx, opened, written, log, exactVars,
                   docVars, lshVars, docs_to_remove, clusterVars>>

\* one iteration of the loop "1. Process each document"
ReadDoc ==
    /\ pc = "read"
    /\ idx <= Len(input_files)
    /\ LET doc_path == input_files[idx] IN
         /\ opened' = Append(opened, <<doc_path, "r">>)
         /\ IF doc_path \notin DOMAIN fs \/ fs[doc_path].bad
            THEN /\ log' = Append(log, <<"could_not_process", doc_path>>)
                 /\ UNCHANGED docVars
            ELSE LET text == ReadText(fs[doc_path].chars)
                     normalized_text == normalize_text(text)
                     shingles == create_ngrams(normalized_text, ngrams)
                 IN /\ doc_text' = Put(doc_text, doc_path, text)
                    /\ doc_ngrams' = Put(doc_ngrams, doc_path, shingles)
                    /\ \E order \in Orders(shingles) :
                          doc_signatures' =
                             Put(doc_signatures, doc_path,
                                 compute_minhash_signature(order, num_hashes, DefaultSeed))
                    /\ doc_order' = PutOrder(doc_order, doc_path)
                    /\ UNCHANGED log
    /\ idx' = idx + 1
    /\ UNCHANGED <<envVars, fs, out_dir_made, pc, written, exactVars,
                   lshVars, docs_to_remove, clusterVars>>

\* candidate_buckets: the buckets with more than one document
Mut_CandidateBuckets(bkts) == SelectSeq(bkts, LAMBDA b : Len(b.docs) > 2)

CandidateBuckets(bkts) == SelectSeq(bkts, LAMBDA b : Len(b.docs) > 1)

\* "2. Apply LSH", the filter of the buckets, and the call of find_duplicate_clusters
ApplyLsh ==
    /\ pc = "read"
    /\ idx > Len(input_files)
    /\ IF ApplyLshRaises(doc_order, num_bands)
       THEN /\ pc' = "raised"
            /\ UNCHANGED <<idx, lshVars>>
       ELSE /\ buckets' = apply_lsh(doc_order, doc_signatures, num_bands)
            /\ candidates' = CandidateBuckets(buckets')
            /\ pc' = "confirm"
            /\ idx' = 1
    /\ UNCHANGED <<envVars, fs, out_dir_made, opened, written, log, exactVars,
                   docVars, docs_to_remove, clusterVars>>

\* every document of the cluster is kept
Mut_ChooseSurvivor ==
    /\ pc = "clustered"
    /\ idx <= Len(clusters)
    /\ idx' = idx + 1
    /\ UNCHANGED <<envVars, fs, out_dir_made, pc, opened, written, log, exactVars,
                   docVars, lshVars, docs_to_remove, clusterVars>>

\* one iteration of the loop "4.": random.choice(cluster) is kept
ChooseSurvivor ==
    /\ pc = "clustered"
    /\ idx <= Len(clusters)
    /\ \E docs_to_keep \in SeqToSet(clusters[idx]) :
          docs_to_remove' = docs_to_remove \cup (SeqToSet(clusters[idx]) \ {docs_to_keep})
    /\ idx' = idx + 1
    /\ UNCHANGED <<envVars, fs, out_dir_made, pc, opened, written, log, exactVars,
                   docVars, lshVars, clusterVars>>

ChooseDone ==
    /\ pc = "clustered"
    /\ idx > Len(clusters)
    /\ pc' = "write"
    /\ idx' = 1
    /\ UNCHANGED <<envVars, fs, out_dir_made, opened, written, log, exactVars,
                   docVars, lshVars, docs_to_remove, clusterVars>>

\* an output file that cannot be opened ends the run
Mut_WriteDoc ==
    /\ pc = "write"
    /\ idx <= Len(input_files)
    /\ LET doc_path == input_files[idx]
           output_path == OutputPath(output_directory, doc_path)
       IN IF doc_path \in docs_to_remove
          THEN /\ idx' = idx + 1
               /\ UNCHANGED <<fs, pc, opened, written, log>>
          ELSE /\ opened' = Append(opened, <<output_path, "w">>)
               /\ IF output_path \in unwritable
                  THEN /\ pc' = "raised"
                       /\ UNCHANGED <<fs, idx, written, log>>
                  ELSE IF doc_path \notin DOMAIN doc_text
                  THEN /\ fs' = [p \in DOMAIN fs \cup {output_path} |->
                                    IF p = output_path THEN [chars |-> <<>>, bad |-> FALSE]
                                    ELSE fs[p]]
                       /\ pc' = "raised"
                       /\ UNCHANGED <<idx, written, log>>
                  ELSE /\ fs' = [p \in DOMAIN fs \cup {output_path} |->
                                    IF p = output_path
                                    THEN [chars |-> doc_text[doc_path], bad |-> FALSE]
                                    ELSE fs[p]]
                       /\ written' = Append(written, <<output_path, doc_text[doc_path]>>)
                       /\ idx' = idx + 1
                       /\ UNCHANGED <<pc, log>>
    /\ UNCHANGED <<envVars, out_dir_made, exactVars, docVars, lshVars, docs_to_remove,
                   clusterVars>>

\* one iteration of the loop "5. Write deduplicated files"; doc_text[doc_path]
\* raises KeyError, which no except clause catches, for a document that was not read
WriteDoc ==
    /\ pc = "write"
    /\ idx <= Len(input_files)
    /\ LET doc_path == input_files[idx]
           output_path == OutputPath(output_directory, doc_path)
       IN IF doc_path \in docs_to_remove
          THEN /\ idx' = idx + 1
               /\ UNCHANGED <<fs, pc, opened, written, log>>
          ELSE /\ opened' = Append(opened, <<output_path, "w">>)
               /\ IF output_path \in unwritable
                  THEN /\ log' = Append(log, <<"could_not_write", output_path>>)
                       /\ idx' = idx + 1
                       /\ UNCHANGED <<fs, pc, written>>
                  ELSE IF doc_path \notin DOMAIN doc_text
                  THEN /\ fs' = OpenForWrite(fs, output_path, EmptyDoc)
                       /\ pc' = "raised"
                       /\ UNCHANGED <<idx, written, log>>
                  ELSE /\ fs' = [OpenForWrite(fs, output_path, EmptyDoc)
                                   EXCEPT ![output_path].chars = WriteText(doc_text[doc_path])]
                       /\ written' = Append(written, <<output_path, doc_text[doc_path]>>)
                       /\ idx' = idx + 1
                       /\ UNCHANGED <<pc, log>>
    /\ UNCHANGED <<envVars, out_dir_made, exactVars, docVars, lshVars, docs_to_remove,
                   clusterVars>>

MinhashReturn ==
    /\ pc = "write"
    /\ idx > Len(input_files)
    /\ pc' = "done"
    /\ UNCHANGED <<envVars, fs, out_dir_made, idx, opened, written, log, exactVars,
                   docVars, lshVars, docs_to_remove, clusterVars>>

(***************************************************************************)
(* The calls of minhash_deduplication that the model runs.                 *)
(***************************************************************************)
\* "a b c", "A b, c!", "a b d", "b c d", "a\r\nb", "c", ""
DocTexts ==
    { <<"a", " ", "b", " ", "c">>,
      <<"A", " ", "b", ",", " ", "c", "!">>,
      <<"a", " ", "b", " ", "d">>,
      <<"b", " ", "c", " ", "d">>,
      <<"a", "\r", "\n", "b">>,
      <<"c">>,
      <<>> }

DocFiles == {[chars |-> t, bad |-> FALSE] : t \in DocTexts}
            \cup {[chars |-> <<"a">>, bad |-> TRUE]}

DocLayouts ==
    { << <<"in", "a">> >>,
      << <<"in", "a">>, <<"in", "b">> >>,
      << <<"in", "a">>, <<"in2", "a">> >>,
      << <<"in", "a">>, <<"in", "a">> >>,
      << <<"out", "a">>, <<"in", "b">> >>,
      << <<"in", "a">>, <<"out", "b">> >>,
      << <<"in", "a">>, <<"in", "b">>, <<"in", "c">> >> }

\* <<num_hashes, num_bands>>
Bandings == {<<2, 1>>, <<2, 2>>, <<3, 2>>, <<3, 3>>, <<2, 0>>}

NgramSizes == {0, 1, 2}

\* thresholds outside [0, 1]: -1/2 and 3/2
OutOfRangeThresholds == {<<-1, 2>>, <<3, 2>>}

InitMinhash ==
    /\ output_directory = "out"
    /\ input_files \in DocLayouts
    /\ \E present \in SUBSET SeqToSet(input_files) : fs \in [present -> DocFiles]
    /\ unwritable \in SUBSET {OutputPath(output_directory, input_files[i]) :
                                  i \in 1..Len(input_files)}
    /\ mkdir_fails \in BOOLEAN
    /\ mkdir_fails => \A p \in DOMAIN fs : p[1] # output_directory
    /\ Faults(fs) <= MaxFaults
    /\ \E b \in Bandings : num_hashes = b[1] /\ num_bands = b[2]
    /\ ngrams \in NgramSizes
    /\ \/ jaccard_threshold \in Thresholds
       \/ Len(input_files) <= 2 /\ jaccard_threshold \in OutOfRangeThresholds
    /\ fs0 = fs
    /\ out_dir_made = FALSE
    /\ call = 1 /\ first_run = NoRun
    /\ pc = "minhash_start"
    /\ idx = 1
    /\ opened = <<>> /\ written = <<>> /\ log = <<>>
    /\ line_counter = EmptyCounter /\ unique_line_hashes = {}
    /\ doc_order = <<>> /\ doc_text = <<>> /\ doc_ngrams = <<>> /\ doc_signatures = <<>>
    /\ buckets = <<>> /\ candidates = <<>> /\ docs_to_remove = {}
    /\ duplicates = <<>> /\ jaccard_calls = <<>>
    /\ processed = {} /\ clusters = <<>> /\ cluster = <<>> /\ queue = <<>>

NextMinhash ==
    \/ MinhashMkdir \/ ReadDoc \/ ApplyLsh
    \/ ConfirmPair \/ ConfirmDone \/ ClusterStart \/ BfsPop \/ ClusterEnd \/ ClustersReturn
    \/ ChooseSurvivor \/ ChooseDone \/ WriteDoc \/ MinhashReturn

SpecMinhash == InitMinhash /\ [][NextMinhash]_vars

(***************************************************************************)
(* What the claims about find_duplicate_clusters speak of, stated from its *)
(* arguments alone.                                                        *)
(***************************************************************************)
Docs == SeqToSet(doc_order)

\* the two documents are in the list of one bucket
CoBucket(d1, d2) ==
    \E k \in 1..Len(candidates) :
        \E i, j \in 1..Len(candidates[k].docs) :
            i # j /\ candidates[k].docs[i] = d1 /\ candidates[k].docs[j] = d2

\* |A n B| / |A u B| >= jaccard_threshold, two empty sets having similarity 1
Similar(d1, d2) ==
    LET inter == Cardinality(doc_ngrams[d1] \cap doc_ngrams[d2])
        union == Cardinality(doc_ngrams[d1] \cup doc_ngrams[d2])
    IN IF union = 0 THEN jaccard_threshold[2] >= jaccard_threshold[1]
       ELSE inter * jaccard_threshold[2] >= jaccard_threshold[1] * union

ConfirmedEdge(d1, d2) == d1 # d2 /\ CoBucket(d1, d2) /\ Similar(d1, d2)

\* the documents that a chain of confirmed edges joins to a document of S
RECURSIVE Component(_)
Component(S) ==
    LET grown == S \cup {d \in Docs : \E e \in S : ConfirmedEdge(e, d)}
    IN IF grown = S THEN S ELSE Component(grown)

ComponentsOfSize2 == {C \in {Component({d}) : d \in Docs} : Cardinality(C) >= 2}

ClusterSets == {SeqToSet(clusters[k]) : k \in 1..Len(clusters)}

\* C5: find_duplicate_clusters returns exactly the connected components of
\* size >= 2 of the undirected graph of confirmed edges: two documents are in
\* one cluster iff a chain of confirmed edges joins them.
C5_ClustersAreComponents ==
    pc = "clustered" =>
        /\ ClusterSets = ComponentsOfSize2
        /\ \A d1, d2 \in Docs :
              d1 # d2 => ((\E C \in ClusterSets : d1 \in C /\ d2 \in C)
                            <=> d2 \in Component({d1}))

\* A-B and B-C are confirmed, A and C share no bucket, and the three are in one
\* returned cluster
C5_Witness ==
    /\ pc = "clustered"
    /\ \E a, b, c \in Docs :
          /\ a # c
          /\ ConfirmedEdge(a, b) /\ ConfirmedEdge(b, c) /\ ~CoBucket(a, c)
          /\ \E C \in ClusterSets : {a, b, c} \subseteq C

\* C6: the clusters of find_duplicate_clusters are pairwise disjoint, hold no
\* document twice and have at least 2 members each.
C6_ClustersDisjoint ==
    /\ \A k \in 1..Len(clusters) :
          /\ Len(clusters[k]) >= 2
          /\ \A i, j \in 1..Len(clusters[k]) : clusters[k][i] = clusters[k][j] => i = j
    /\ \A k, l \in 1..Len(clusters) :
          k # l => SeqToSet(clusters[k]) \cap SeqToSet(clusters[l]) = {}

\* two clusters were returned
C6_Witness ==
    /\ pc = "clustered"
    /\ Len(clusters) = 2
    /\ jaccard_calls # <<>>

\* C7: a pair of distinct documents is a confirmed duplicate edge iff the two
\* co-occur in a bucket and their Jaccard similarity is >= jaccard_threshold;
\* while the buckets are being gone through, no other pair is an edge.
C7_EdgeIffBucketAndSimilar ==
    /\ \A d1 \in DOMAIN duplicates : \A d2 \in duplicates[d1] :
          d1 # d2 => ConfirmedEdge(d1, d2)
    /\ pc \in {"cluster", "bfs", "clustered"} =>
          \A d1, d2 \in Docs :
              d1 # d2 => (d2 \in DuplicatesOf(duplicates, d1) <=> ConfirmedEdge(d1, d2))

\* after the confirmation: an edge, a pair sharing a bucket that is no edge, and
\* a pair similar enough that shares no bucket and is no edge
C7_Witness ==
    /\ pc = "cluster"
    /\ \E d1, d2 \in Docs : d1 # d2 /\ d2 \in DuplicatesOf(duplicates, d1)
    /\ \E d1, d2 \in Docs :
          d1 # d2 /\ CoBucket(d1, d2) /\ ~Similar(d1, d2)
          /\ d2 \notin DuplicatesOf(duplicates, d1)
    /\ \E d1, d2 \in Docs :
          d1 # d2 /\ ~CoBucket(d1, d2) /\ Similar(d1, d2)
          /\ d2 \notin DuplicatesOf(duplicates, d1)

(***************************************************************************)
(* What the claims about minhash_deduplication speak of.                   *)
(***************************************************************************)
MinhashOver == pc \in {"done", "raised"}

OutputOf(doc) == OutputPath(output_directory, doc)

\* a write of the run went to the path
WrittenTo(path) == \E k \in 1..Len(written) : written[k][1] = path

\* the run opened the path for writing
OpenedForWrite(path) == \E k \in 1..Len(opened) : opened[k] = <<path, "w">>

Readable(doc) == doc \in DOMAIN fs0 /\ ~fs0[doc].bad

InputDocs == SeqToSet(input_files)

\* the output directory holds the document under its base name, unchanged
PresentUnchanged(doc) ==
    /\ OutputOf(doc) \in DOMAIN fs
    /\ ~fs[OutputOf(doc)].bad
    /\ fs[OutputOf(doc)].chars = fs0[doc].chars

\* the output directory holds the document under its base name, as f.read()
\* returned it
PresentAsRead(doc) ==
    /\ OutputOf(doc) \in DOMAIN fs
    /\ ~fs[OutputOf(doc)].bad
    /\ fs[OutputOf(doc)].chars = ReadText(fs0[doc].chars)

\* the document is in no confirmed duplicate edge
InNoEdge(doc) == doc \notin Docs \/ \A other \in Docs : ~ConfirmedEdge(doc, other)

WrittenMembers(k) == {d \in SeqToSet(clusters[k]) : WrittenTo(OutputOf(d))}

KeptMembers(k) == SeqToSet(clusters[k]) \ docs_to_remove

\* C3 as stated: when every input document is read and the base names are
\* pairwise distinct, once minhash_deduplication is over exactly one member of
\* every duplicate cluster has been written and the others have not.
C3_AsStated ==
    (MinhashOver /\ AllReadable /\ DistinctBaseNames) =>
        \A k \in 1..Len(clusters) : Cardinality(WrittenMembers(k)) = 1

\* C3 (amended): when every input document is read and the base names are
\* pairwise distinct, once minhash_deduplication is over exactly one member of
\* every duplicate cluster is kept and no other member has been written; the
\* kept member is in the output directory with its text as read, unless its
\* output file cannot be opened for writing, and then no member of the cluster
\* is written.
C3_SurvivorPerCluster ==
    (MinhashOver /\ AllReadable /\ DistinctBaseNames) =>
        \A k \in 1..Len(clusters) :
            /\ Cardinality(KeptMembers(k)) = 1
            /\ WrittenMembers(k) \subseteq KeptMembers(k)
            /\ \A d \in KeptMembers(k) :
                  IF OutputOf(d) \in unwritable
                  THEN WrittenMembers(k) = {}
                  ELSE WrittenMembers(k) = {d} /\ PresentAsRead(d)

\* a finished run over three documents that are one cluster, one of them written
C3_Witness ==
    /\ pc = "done" /\ AllReadable /\ DistinctBaseNames /\ unwritable = {}
    /\ Len(clusters) = 1
    /\ Len(clusters[1]) = 3
    /\ Cardinality(WrittenMembers(1)) = 1
    /\ Cardinality(docs_to_remove) = 2

\* a valid configuration and an environment in which every output can be made
HealthyRun ==
    /\ ~mkdir_fails /\ unwritable = {}
    /\ DistinctBaseNames
    /\ num_bands > 0 /\ num_hashes % num_bands = 0 /\ ngrams >= 1

\* C4, for the runs with a valid configuration, pairwise distinct base names and
\* outputs that can all be made: once minhash_deduplication is over, every
\* readable input document that is in no confirmed duplicate edge is in the
\* output directory under its base name with its content unchanged.
C4_Passthrough ==
    (MinhashOver /\ HealthyRun) =>
        \A d \in InputDocs : (Readable(d) /\ InNoEdge(d)) => PresentUnchanged(d)

\* C8, for the runs with a valid configuration, pairwise distinct base names and
\* outputs that can all be made: when one input document cannot be read or
\* decoded, the run does not abort, nothing is written for that document, and
\* every other document that was not removed is in the output directory.
C8_SkipAndContinue ==
    (MinhashOver /\ HealthyRun /\ Cardinality({d \in InputDocs : ~Readable(d)}) = 1) =>
        /\ pc = "done"
        /\ \A d \in InputDocs :
              IF Readable(d)
              THEN d \notin docs_to_remove => PresentAsRead(d)
              ELSE ~OpenedForWrite(OutputOf(d))

\* C9: under a configuration whose num_hashes is not a multiple of num_bands no
\* file is opened and no output directory is made, the run does not complete,
\* and no bucket is made of bands that leave trailing signature rows out.
C9_NonDivisibleRejected ==
    (num_bands # 0 /\ num_hashes % num_bands # 0) =>
        /\ opened = <<>>
        /\ ~out_dir_made
        /\ pc # "done"
        /\ \A k \in 1..Len(buckets) : Len(buckets[k].key[2]) * num_bands = num_hashes

\* C10: under a shingle size n < 1 no shingle set is returned, no file is opened
\* and no output directory is made, and the run does not complete.
C10_ShingleSizeRejected ==
    ngrams < 1 =>
        /\ DOMAIN doc_ngrams = {}
        /\ opened = <<>>
        /\ ~out_dir_made
        /\ pc # "done"

InRange(threshold) == 0 <= threshold[1] /\ threshold[1] <= threshold[2]

\* C11: under a jaccard_threshold outside [0, 1] no file is opened, no output
\* directory is made and nothing is written, no pair is confirmed against the
\* threshold, and the run does not complete.
C11_ThresholdRejected ==
    ~InRange(jaccard_threshold) =>
        /\ opened = <<>>
        /\ ~out_dir_made
        /\ written = <<>>
        /\ jaccard_calls = <<>>
        /\ pc # "done"

(***************************************************************************)
(* Two calls of exact_line_deduplication in a row.                         *)
(***************************************************************************)
\* every input file of the call has an output file with the same lines
OutputsEqualInputs ==
    \A i \in 1..Len(input_files) :
        /\ OutputOf(input_files[i]) \in DOMAIN fs
        /\ fs[OutputOf(input_files[i])].lines = fs0[input_files[i]].lines

RECURSIVE CounterOfReadable(_)
CounterOfReadable(n) ==
    IF n = 0 THEN EmptyCounter
    ELSE CountLines(CounterOfReadable(n - 1),
                    IF Readable(input_files[n]) THEN fs0[input_files[n]].lines ELSE <<>>)

\* C13: once the first pass of exact_line_deduplication is over, the frequency
\* table counts the lines of the readable files and no line of a file whose read
\* or decode fails; no line is written for such a file; and every readable file
\* whose output can be opened has its output file when the call is over.
C13_FailedFileExcluded ==
    /\ pc \in {"rewrite", "done"} => line_counter = CounterOfReadable(Len(input_files))
    /\ \A i \in 1..Len(input_files) :
          (\A j \in 1..Len(input_files) :
               OutputOf(input_files[j]) = OutputOf(input_files[i])
                  => ~Readable(input_files[j]))
             => ~WrittenTo(OutputOf(input_files[i]))
    /\ pc = "done" =>
          \A i \in 1..Len(input_files) :
              (Readable(input_files[i]) /\ OutputOf(input_files[i]) \notin unwritable)
                 => OutputOf(input_files[i]) \in DOMAIN fs

(***************************************************************************)
(* Both pipelines, called with an output file that cannot be opened.       *)
(***************************************************************************)
\* the calls with at most MaxWriteDocs input files, one of whose output files at
\* least cannot be opened
MaxWriteDocs == 2

InitWrites ==
    /\ InitExact \/ InitMinhash
    /\ unwritable # {}
    /\ Len(input_files) <= MaxWriteDocs

NextWrites ==
    \/ ExactMkdir \/ CountFile \/ CountDone \/ RewriteFile \/ ExactReturn
    \/ MinhashMkdir \/ ReadDoc \/ ApplyLsh
    \/ ConfirmPair \/ ConfirmDone \/ ClusterStart \/ BfsPop \/ ClusterEnd \/ ClustersReturn
    \/ ChooseSurvivor \/ ChooseDone \/ WriteDoc \/ MinhashReturn

SpecWrites == InitWrites /\ [][NextWrites]_vars

\* the next iteration of a write loop opens an output file and fails
WriteFailsNext ==
    /\ idx <= Len(input_files)
    /\ OutputOf(input_files[idx]) \in unwritable
    /\ \/ pc = "rewrite" /\ input_files[idx] \in DOMAIN fs
       \/ pc = "write" /\ input_files[idx] \notin docs_to_remove

\* C14: in both pipelines a failure to open an output file for writing leaves
\* the pipeline in its write loop, which moves on to the next input file, prints
\* one warning for the file and changes no file.
C14_WriteFailureIsLocal ==
    [][WriteFailsNext =>
          /\ pc' = pc
          /\ idx' = idx + 1
          /\ fs' = fs
          /\ Len(log') = Len(log) + 1
          /\ log'[Len(log')][2] \in {input_files[idx], OutputOf(input_files[idx])}]_vars

\* a call is over in which one output file could not be opened, which was
\* reported, and a file after it was written
C14_Witness ==
    /\ pc = "done"
    /\ Len(log) = 1
    /\ \E i, j \in 1..Len(opened) :
          /\ i < j
          /\ opened[i][2] = "w" /\ opened[i][1] \in unwritable
          /\ opened[j][2] = "w" /\ WrittenTo(opened[j][1])

(***************************************************************************)
(* What minhash_deduplication writes.                                      *)
(***************************************************************************)
\* the input documents that the file of the output directory is named after
NamedAfter(path) == {d \in InputDocs : OutputOf(d) = path}

\* C15: every file that minhash_deduplication has opened for writing holds,
\* once the call is over, exactly the raw text of an input document that it is
\* named after.
C15_WrittenVerbatim ==
    MinhashOver =>
        \A k \in 1..Len(opened) :
            (opened[k][2] = "w" /\ opened[k][1] \notin unwritable) =>
                \E d \in NamedAfter(opened[k][1]) :
                    /\ d \in DOMAIN fs0
                    /\ fs[opened[k][1]].chars = fs0[d].chars

(***************************************************************************)
(* compute_minhash_signature, on the shingle sets of the documents read.   *)
(***************************************************************************)
\* the document that the last iteration of the reading loop has read
JustRead ==
    IF pc = "read" /\ idx > 1 /\ input_files[idx - 1] \in DOMAIN doc_text
    THEN {input_files[idx - 1]}
    ELSE {}

\* the seeds that a caller passes: the default, and the one after it
Seeds == {DefaultSeed, DefaultSeed + 1}

\* the signature is n_hashes integers: slot i the least hash, under seed + i,
\* of a shingle, and every slot 0 for no shingles
IsMinhashOf(signature, shingles, n_hashes, seed) ==
    /\ DOMAIN signature = 1..n_hashes
    /\ \A i \in 1..n_hashes :
          /\ signature[i] \in Int
          /\ IF shingles = {}
             THEN signature[i] = 0
             ELSE /\ \E s \in shingles : signature[i] = mmh3_hash(s, seed + (i - 1))
                  /\ \A s \in shingles : signature[i] <= mmh3_hash(s, seed + (i - 1))

\* C16: the signature that compute_minhash_signature returns for the shingle
\* set of a document is exactly num_hashes integers, slot i being the minimum
\* over the shingles of the hash seeded with seed + i, and 0 in every slot for
\* the empty shingle set; for the signatures of the pipeline, whose seed is the
\* default, and, when a document has been read, for every seed and visiting
\* order of its shingles.
C16_SignatureIsMinima ==
    /\ \A d \in DOMAIN doc_signatures :
          IsMinhashOf(doc_signatures[d], doc_ngrams[d], num_hashes, DefaultSeed)
    /\ \A d \in JustRead :
          \A seed \in Seeds : \A order \in Orders(doc_ngrams[d]) :
              IsMinhashOf(compute_minhash_signature(order, num_hashes, seed),
                          doc_ngrams[d], num_hashes, seed)

\* the signatures of a document of three shingles and of a document of none
\* have been computed, three slots each
C16_Witness ==
    /\ num_hashes = 3
    /\ \E d \in DOMAIN doc_signatures :
          Cardinality(doc_ngrams[d]) = 3 /\ doc_signatures[d][1] # doc_signatures[d][2]
    /\ \E d \in DOMAIN doc_signatures :
          doc_ngrams[d] = {} /\ doc_signatures[d] = <<0, 0, 0>>

(***************************************************************************)
(* Two calls of minhash_deduplication in a row, with the same arguments.   *)
(***************************************************************************)
\* minhash_deduplication has returned and is called again with its arguments
MinhashAgain ==
    /\ pc = "done"
    /\ call = 1
    /\ call' = 2
    /\ first_run' = [signatures |-> doc_signatures,
                     clusters |-> {SeqToSet(clusters[k]) : k \in 1..Len(clusters)}]
    /\ fs0' = fs
    /\ out_dir_made' = FALSE
    /\ pc' = "minhash_start"
    /\ idx' = 1
    /\ opened' = <<>> /\ written' = <<>> /\ log' = <<>>
    /\ doc_order' = <<>> /\ doc_text' = <<>> /\ doc_ngrams' = <<>> /\ doc_signatures' = <<>>
    /\ buckets' = <<>> /\ candidates' = <<>> /\ docs_to_remove' = {}
    /\ duplicates' = <<>> /\ jaccard_calls' = <<>>
    /\ processed' = {} /\ clusters' = <<>> /\ cluster' = <<>> /\ queue' = <<>>
    /\ UNCHANGED <<fs, unwritable, mkdir_fails, input_files, output_directory,
                   num_hashes, num_bands, ngrams, jaccard_threshold, exactVars>>

\* the calls with a configuration in its ranges, on documents that can all be
\* read and written
InitTwice ==
    /\ InitMinhash
    /\ AllReadable /\ OutputWritable
    /\ num_bands > 0 /\ ngrams >= 1 /\ InRange(jaccard_threshold)

NextTwice == NextMinhash \/ MinhashAgain

SpecTwice == InitTwice /\ [][NextTwice]_vars

\* C17: in a second call of minhash_deduplication with the arguments of the
\* first, every document has the signature that the first call gave it, in
\* whatever order its shingles are visited, and find_duplicate_clusters returns
\* the partition into clusters of the first call.
C17_Deterministic ==
    call = 2 =>
        /\ \A d \in DOMAIN doc_signatures : doc_signatures[d] = first_run.signatures[d]
        /\ pc \in {"clustered", "write", "done"} => ClusterSets = first_run.clusters

\* a second call is over that found the cluster of three documents of the first
\* call, one of them a document of three shingles
C17_Witness ==
    /\ call = 2 /\ pc = "done"
    /\ \E C \in first_run.clusters : Cardinality(C) = 3
    /\ ClusterSets = first_run.clusters
    /\ \E d \in DOMAIN doc_ngrams : Cardinality(doc_ngrams[d]) = 3

(***************************************************************************)
(* compute_jaccard_similarity, on the shingle sets of the documents.       *)
(***************************************************************************)
\* the fraction is |A n B| / |A u B|, or 1 for two empty sets
IsJaccardOf(similarity, A, B) ==
    /\ similarity[2] > 0
    /\ IF A = {} /\ B = {}
       THEN similarity[1] = similarity[2]
       ELSE similarity[1] * Cardinality(A \cup B) = Cardinality(A \cap B) * similarity[2]

SameFraction(x, y) == x[1] * y[2] = y[1] * x[2]

\* C18: while find_duplicate_clusters confirms pairs, compute_jaccard_similarity
\* of the shingle sets of every two documents is |A n B| / |A u B|, and 1 for
\* two empty sets, lies in [0, 1] and is the same with its arguments swapped;
\* and similarity({}, {}) = 1, similarity({a}, {}) = 0,
\* similarity({a, b}, {b, c}) = 1/3.
C18_JaccardSimilarity ==
    /\ pc = "confirm" =>
          \A d1, d2 \in Docs :
              LET similarity == compute_jaccard_similarity(doc_ngrams[d1], doc_ngrams[d2])
              IN /\ IsJaccardOf(similarity, doc_ngrams[d1], doc_ngrams[d2])
                 /\ 0 <= similarity[1] /\ similarity[1] <= similarity[2]
                 /\ SameFraction(similarity,
                                 compute_jaccard_similarity(doc_ngrams[d2], doc_ngrams[d1]))
    /\ SameFraction(compute_jaccard_similarity({}, {}), <<1, 1>>)
    /\ SameFraction(compute_jaccard_similarity({"a"}, {}), <<0, 1>>)
    /\ SameFraction(compute_jaccard_similarity({"a", "b"}, {"b", "c"}), <<1, 3>>)

\* the similarity was computed of two documents without shingles, of a document
\* with shingles and one without, and of two documents that share half of
\* their shingles
C18_Witness ==
    /\ \E k \in 1..Len(jaccard_calls) :
          doc_ngrams[jaccard_calls[k][1]] = {} /\ doc_ngrams[jaccard_calls[k][2]] = {}
    /\ \E k \in 1..Len(jaccard_calls) :
          doc_ngrams[jaccard_calls[k][1]] # {} /\ doc_ngrams[jaccard_calls[k][2]] = {}
    /\ \E k \in 1..Len(jaccard_calls) :
          LET A == doc_ngrams[jaccard_calls[k][1]]
              B == doc_ngrams[jaccard_calls[k][2]]
          IN 2 * Cardinality(A \cap B) = Cardinality(A \cup B)

(***************************************************************************)
(* create_ngrams, on the documents read.                                   *)
(***************************************************************************)
\* the windows of n consecutive tokens, each joined by one space
Windows(tokens, n) ==
    {Join(SubSeq(tokens, i, i + n - 1)) : i \in 1..(Len(tokens) - n + 1)}

\* the set is the set of the windows of n tokens of the text
IsNgramsOf(shingles, text, n) ==
    LET tokens == Split(text)
    IN /\ shingles = Windows(tokens, n)
       /\ Len(tokens) >= n => Cardinality(shingles) <= Len(tokens) - n + 1
       /\ Len(tokens) < n => shingles = {}

ShingleSizes == {1, 2, 3}

\* C19: when a document has been read, for n >= 1, the shingle set that the
\* pipeline gets from create_ngrams for the document, and create_ngrams of the
\* raw and of the normalized text of the document for every n of ShingleSizes,
\* is the set of all windows of n
\* whitespace-separated tokens joined by one space, of at most tokens - n + 1
\* members, and the empty set when there are fewer than n tokens; four tokens
\* "a b a b" have the two windows "a b" and "b a" of two tokens.
C19_NgramsAreWindows ==
    /\ \A d \in JustRead :
          LET normalized_text == normalize_text(doc_text[d])
          IN /\ ngrams >= 1 => IsNgramsOf(doc_ngrams[d], normalized_text, ngrams)
             /\ \A n \in ShingleSizes :
                   /\ IsNgramsOf(create_ngrams(doc_text[d], n), doc_text[d], n)
                   /\ IsNgramsOf(create_ngrams(normalized_text, n), normalized_text, n)
    /\ create_ngrams(<<"a", " ", "b", "\n", "a", "\t", " ", "b">>, 2)
          = {<<"a", " ", "b">>, <<"b", " ", "a">>}

\* a document of three tokens has its two shingles of two tokens, and a document
\* of one token has none
C19_Witness ==
    /\ ngrams = 2
    /\ \E d \in DOMAIN doc_ngrams :
          Len(Split(doc_text[d])) = 3 /\ Cardinality(doc_ngrams[d]) = 2
    /\ \E d \in DOMAIN doc_ngrams :
          Len(Split(doc_text[d])) = 1 /\ doc_ngrams[d] = {}

(***************************************************************************)
(* apply_lsh called on its own, with any signature map: the signatures are *)
(* lists of numbers of the range of mmh3.hash, one list per document.      *)
(***************************************************************************)
\* the signature entries of the direct calls
LshEntries == {2, 836083037, -1394263666}

\* the lengths of the signatures of the direct calls
LshHashes == {2, 4}

\* the num_bands of the direct calls
LshBandCounts == 0..3

MaxLshDocs == 2

InitLsh ==
    /\ \E n \in 1..MaxLshDocs : doc_order = SubSeq(DocIds, 1, n)
    /\ num_hashes \in LshHashes
    /\ doc_signatures \in [SeqToSet(doc_order) -> [1..num_hashes -> LshEntries]]
    /\ num_bands \in LshBandCounts
    /\ pc = "read"
    /\ idx = 1
    /\ input_files = <<>>
    /\ fs = <<>> /\ fs0 = <<>> /\ unwritable = {} /\ mkdir_fails = FALSE
    /\ output_directory = "out" /\ out_dir_made = FALSE
    /\ call = 1 /\ first_run = NoRun
    /\ ngrams = 0 /\ jaccard_threshold = <<1, 1>>
    /\ opened = <<>> /\ written = <<>> /\ log = <<>>
    /\ line_counter = EmptyCounter /\ unique_line_hashes = {}
    /\ doc_text = <<>> /\ doc_ngrams = <<>>
    /\ buckets = <<>> /\ candidates = <<>> /\ docs_to_remove = {}
    /\ duplicates = <<>> /\ jaccard_calls = <<>>
    /\ processed = {} /\ clusters = <<>> /\ cluster = <<>> /\ queue = <<>>

NextLsh == ApplyLsh

SpecLsh == InitLsh /\ [][NextLsh]_vars

\* the buckets that hold the document
BucketsOf(doc) == {k \in 1..Len(buckets) : doc \in SeqToSet(buckets[k].docs)}

\* apply_lsh has returned its buckets
LshReturned == pc \notin {"minhash_start", "read", "raised"} /\ doc_signatures # <<>>

\* C20: after apply_lsh with num_bands >= 1, every document of the signature
\* map is in exactly num_bands buckets: for each band index one bucket, which
\* holds the document once, and no two band indices share a bucket.
C20_OneBucketPerBand ==
    (LshReturned /\ num_bands >= 1) =>
        \A doc \in DOMAIN doc_signatures :
            /\ Cardinality(BucketsOf(doc)) = num_bands
            /\ \A k \in BucketsOf(doc) :
                  Cardinality({i \in 1..Len(buckets[k].docs) : buckets[k].docs[i] = doc}) = 1

\* C22: over the whole run, compute_jaccard_similarity is called at most once
\* for a pair of documents, whether the first call confirmed or rejected it.
C22_ComparedAtMostOnce ==
    \A i, j \in 1..Len(jaccard_calls) :
        i # j => SeqToSet(jaccard_calls[i]) # SeqToSet(jaccard_calls[j])

(***************************************************************************)
(* find_duplicate_clusters called with all the buckets, and then called    *)
(* again with the buckets that the filter of minhash_deduplication leaves. *)
(***************************************************************************)
ClustersAgain ==
    /\ pc = "clustered"
    /\ call = 1
    /\ call' = 2
    /\ first_run' = [signatures |-> <<>>, clusters |-> ClusterSets]
    /\ buckets' = candidates
    /\ candidates' = CandidateBuckets(candidates)
    /\ pc' = "confirm"
    /\ idx' = 1
    /\ duplicates' = <<>> /\ jaccard_calls' = <<>>
    /\ processed' = {} /\ clusters' = <<>> /\ cluster' = <<>> /\ queue' = <<>>
    /\ UNCHANGED <<fs0, unwritable, mkdir_fails, input_files, output_directory,
                   num_hashes, num_bands, ngrams, jaccard_threshold,
                   fs, out_dir_made, opened, written, log, exactVars, docVars,
                   docs_to_remove>>

NextPruned == NextClusters \/ ClustersAgain

SpecPruned == InitClusters /\ [][NextPruned]_vars

\* C23: find_duplicate_clusters called with only the buckets of two or more
\* documents returns the set of clusters that it returned for all the buckets.
C23_PruningKeepsClusters ==
    (call = 2 /\ pc = "clustered") => ClusterSets = first_run.clusters

\* the second call has returned a cluster, and the first call had a bucket of
\* one document that the second call did not get
C23_Witness ==
    /\ call = 2 /\ pc = "clustered"
    /\ ClusterSets # {}
    /\ Len(buckets) = 2 /\ Len(candidates) = 1

(***************************************************************************)
(* The fuzzy pipeline from apply_lsh on, and find_duplicate_clusters on    *)
(* its own, for the documents, the buckets and the documents of a bucket   *)
(* in every order.                                                         *)
(***************************************************************************)
MaxOrderDocs == 3
MaxOrderBuckets == 2

\* the signature entries of these calls
OrderEntries == {1, 2}

\* the lists that hold some of the documents, each once, in any order
AnyOrderLists(docs) == UNION {Orders(S) : S \in SUBSET docs \ {{}}}

InitOrders ==
    /\ doc_order \in Orders(SeqToSet(SubSeq(DocIds, 1, MaxOrderDocs)))
    /\ doc_ngrams \in [SeqToSet(doc_order) -> NgramSets]
    /\ jaccard_threshold \in Thresholds
    /\ \/ /\ pc = "read"
          /\ num_hashes = 2
          /\ num_bands \in {1, 2}
          /\ doc_signatures \in [SeqToSet(doc_order) -> [1..num_hashes -> OrderEntries]]
          /\ candidates = <<>>
       \/ /\ pc = "confirm"
          /\ num_hashes = 0 /\ num_bands = 0
          /\ doc_signatures = <<>>
          /\ \E lists \in UNION {[1..k -> AnyOrderLists(SeqToSet(doc_order))] :
                                      k \in 0..MaxOrderBuckets} :
                candidates = [k \in 1..Len(lists) |-> [key |-> <<k, <<>>>>, docs |-> lists[k]]]
    /\ idx = 1
    /\ input_files = <<>>
    /\ duplicates = <<>> /\ jaccard_calls = <<>>
    /\ processed = {} /\ clusters = <<>> /\ cluster = <<>> /\ queue = <<>>
    /\ fs = <<>> /\ fs0 = <<>> /\ unwritable = {} /\ mkdir_fails = FALSE
    /\ output_directory = "out" /\ out_dir_made = FALSE
    /\ call = 1 /\ first_run = NoRun
    /\ ngrams = 0
    /\ opened = <<>> /\ written = <<>> /\ log = <<>>
    /\ line_counter = EmptyCounter /\ unique_line_hashes = {}
    /\ doc_text = <<>>
    /\ buckets = <<>> /\ docs_to_remove = {}

NextOrders == ApplyLsh \/ NextClusters

SpecOrders == InitOrders /\ [][NextOrders]_vars

\* the band of a signature, as apply_lsh slices it
BandOf(signature, band_idx, n_bands) ==
    LET rows_per_band == Len(signature) \div n_bands
    IN PySlice(signature, band_idx * rows_per_band,
               band_idx * rows_per_band + rows_per_band)

\* the sets of documents that have one bucket key, from the signature map alone
BucketSetsOf(signatures, n_bands) ==
    {{d \in DOMAIN signatures :
          BandHash(b, BandOf(signatures[d], b, n_bands))
              = BandHash(b, BandOf(signatures[e], b, n_bands))} :
        e \in DOMAIN signatures, b \in 0..(n_bands - 1)}

\* the documents that a chain of similar documents of one bucket joins to a
\* document of S, the buckets being sets of documents
RECURSIVE Joined(_, _)
Joined(bucket_sets, S) ==
    LET grown == S \cup {d \in DOMAIN doc_ngrams :
                            \E e \in S : \E B \in bucket_sets :
                                d # e /\ {d, e} \subseteq B /\ Similar(e, d)}
    IN IF grown = S THEN S ELSE Joined(bucket_sets, grown)

\* the partition into clusters, from the set of the buckets as sets of documents
PartitionOf(bucket_sets) ==
    {C \in {Joined(bucket_sets, {d}) : d \in DOMAIN doc_ngrams} : Cardinality(C) >= 2}

\* C24: the set of clusters, as sets of documents, is a function of the set of
\* the documents, their shingles and signatures and the threshold alone: the
\* buckets of apply_lsh, as sets, are the same in every order of the
\* documents, and the clusters are the same in every order of the documents,
\* of the buckets, of the documents of a bucket and of the BFS.
C24_OrderIndependent ==
    /\ (pc \notin {"read", "raised"} /\ doc_signatures # <<>>) =>
          /\ {SeqToSet(buckets[k].docs) : k \in 1..Len(buckets)}
                 = BucketSetsOf(doc_signatures, num_bands)
          /\ {SeqToSet(candidates[k].docs) : k \in 1..Len(candidates)}
                 = {B \in BucketSetsOf(doc_signatures, num_bands) : Cardinality(B) >= 2}
    /\ pc = "clustered" =>
          ClusterSets = PartitionOf({SeqToSet(candidates[k].docs) : k \in 1..Len(candidates)})

\* a cluster of three documents was returned for documents, and for a bucket,
\* that were not in the order of their names
C24_Witness ==
    /\ pc = "clustered"
    /\ doc_order[1] = DocIds[3]
    /\ \E k \in 1..Len(candidates) :
          Len(candidates[k].docs) >= 2 /\ candidates[k].docs[1] = DocIds[2]
    /\ \E C \in ClusterSets : Cardinality(C) = 3

(***************************************************************************)
(* Both pipelines, every call of the model.                                *)
(***************************************************************************)
InitPasses == InitExact \/ InitMinhash

SpecPasses == InitPasses /\ [][NextWrites]_vars

\* the open(path, 'w') calls so far
WriteOpens(calls) == SelectSeq(calls, LAMBDA c : c[2] = "w")

\* the step creates, truncates and writes no file
NoOutputStep ==
    /\ fs' = fs
    /\ written' = written
    /\ WriteOpens(opened') = WriteOpens(opened)

\* compute_jaccard_similarity has been called for the pair, in one order or the other
Evaluated(pair) ==
    \E k \in 1..Len(jaccard_calls) : SeqToSet(jaccard_calls[k]) = SeqToSet(pair)

\* C25: no step of the first pass of a pipeline creates or writes a file: exact
\* dedup leaves the counting loop for the rewriting loop only when every input
\* file has been opened by it, and the counter does not change after; fuzzy
\* dedup starts the loop that builds the clusters only when every pair of every
\* candidate bucket has been evaluated, the edges do not change after, and the
\* first output is opened only when every document is in its cluster.
C25_TwoPasses ==
    [][/\ pc \in {"exact_start", "count"} => NoOutputStep
       /\ (pc = "count" /\ pc' = "rewrite") =>
             /\ Len(opened) = Len(input_files)
             /\ \A i \in 1..Len(input_files) : opened[i] = <<input_files[i], "r">>
       /\ pc = "rewrite" => line_counter' = line_counter
       /\ pc \in {"minhash_start", "read", "confirm", "cluster", "bfs", "clustered"} =>
             NoOutputStep
       /\ (pc = "confirm" /\ pc' = "cluster") =>
             \A k \in 1..Len(AllPairs(candidates)) : Evaluated(AllPairs(candidates)[k])
       /\ pc \in {"cluster", "bfs", "clustered", "write"} => duplicates' = duplicates
       /\ (pc = "clustered" /\ pc' = "write") =>
             /\ processed = SeqToSet(doc_order)
             /\ queue = <<>>
       /\ pc = "write" => clusters' = clusters /\ docs_to_remove' = docs_to_remove
      ]_vars

\* a fuzzy run wrote an output after it had evaluated two pairs and built a cluster
C25_Witness ==
    /\ pc = "write"
    /\ written # <<>>
    /\ Len(jaccard_calls) >= 2
    /\ Len(clusters) >= 1

(***************************************************************************)
(* normalize_text and create_ngrams on every short text: one document of   *)
(* any text over TextChars is read by the reading loop of                  *)
(* minhash_deduplication, with num_hashes = 0 so that no hash is taken.    *)
(***************************************************************************)
MaxTextLen == 4

TextChars == {"a", "e", "A", "_", ",", " ", "\n", "acute", "e_acute"}

Texts == UNION {[1..n -> TextChars] : n \in 0..MaxTextLen}

InitText ==
    /\ input_files = << <<"in", "a">> >>
    /\ \E t \in Texts : fs = [p \in {<<"in", "a">>} |-> [chars |-> t, bad |-> FALSE]]
    /\ fs0 = fs
    /\ unwritable = {} /\ mkdir_fails = FALSE
    /\ output_directory = "out" /\ out_dir_made = TRUE
    /\ call = 1 /\ first_run = NoRun
    /\ num_hashes = 0 /\ num_bands = 1
    /\ ngrams \in {1, 2}
    /\ jaccard_threshold = <<1, 1>>
    /\ pc = "read"
    /\ idx = 1
    /\ opened = <<>> /\ written = <<>> /\ log = <<>>
    /\ line_counter = EmptyCounter /\ unique_line_hashes = {}
    /\ doc_order = <<>> /\ doc_text = <<>> /\ doc_ngrams = <<>> /\ doc_signatures = <<>>
    /\ buckets = <<>> /\ candidates = <<>> /\ docs_to_remove = {}
    /\ duplicates = <<>> /\ jaccard_calls = <<>>
    /\ processed = {} /\ clusters = <<>> /\ cluster = <<>> /\ queue = <<>>

NextText == ReadDoc

SpecText == InitText /\ [][NextText]_vars

\* the characters that are punctuation: the underscore is one (category Pc)
Punctuation == {",", "_"}

\* no whitespace at either end, and no whitespace after whitespace
SingleSpaced(text) ==
    /\ text # <<>> => ~IsSpace(text[1]) /\ ~IsSpace(text[Len(text)])
    /\ \A i \in 1..(Len(text) - 1) : ~(IsSpace(text[i]) /\ IsSpace(text[i + 1]))

ClustersBuilt == pc \in {"clustered", "write", "done"} \/ (pc = "raised" /\ out_dir_made)

\* the survivors have been chosen
SurvivorsChosen == pc \in {"write", "done"} \/ (pc = "raised" /\ out_dir_made)

\* the writes of the run to the output paths of the two documents
WritesOf(d1, d2) ==
    {k \in 1..Len(written) : written[k][1] \in {OutputOf(d1), OutputOf(d2)}}

\* C27: for num_bands >= 1 and jaccard_threshold <= 1, two documents that were
\* read and have equal shingle sets are in one returned cluster, at most one of
\* them is kept and at most one write goes to their output paths; a document
\* without shingles has the signature of zeros, so all such documents are in
\* one cluster.
C27_EqualShinglesOneCluster ==
    (num_bands >= 1 /\ jaccard_threshold[1] <= jaccard_threshold[2]) =>
        \A d1, d2 \in DOMAIN doc_ngrams :
            (d1 # d2 /\ doc_ngrams[d1] = doc_ngrams[d2]) =>
                /\ doc_signatures[d1] = doc_signatures[d2]
                /\ doc_ngrams[d1] = {} => doc_signatures[d1] = [i \in 1..num_hashes |-> 0]
                /\ ClustersBuilt => \E C \in ClusterSets : {d1, d2} \subseteq C
                /\ SurvivorsChosen =>
                      /\ d1 \in docs_to_remove \/ d2 \in docs_to_remove
                      /\ Cardinality(WritesOf(d1, d2)) <= 1

\* a finished run read two documents of different texts, both without
\* shingles, put them in one cluster and wrote one of them
C27_Witness ==
    /\ pc = "done"
    /\ \E d1, d2 \in DOMAIN doc_ngrams :
          /\ doc_text[d1] # doc_text[d2]
          /\ doc_ngrams[d1] = {} /\ doc_ngrams[d2] = {}
          /\ \E C \in ClusterSets : {d1, d2} \subseteq C
          /\ Cardinality(WritesOf(d1, d2)) = 1

\* C28: every input file that existed when the pipeline was called exists with
\* the content it had then, whatever the output directory is.
C28_InputsUntouched ==
    \A p \in InputDocs \cap DOMAIN fs0 : p \in DOMAIN fs /\ fs[p] = fs0[p]

\* the text with its combining marks deleted: the decomposed text without the
\* characters of a combining class
WithoutMarks(text) == SelectSeq(FlatMap(Nfd, text), LAMBDA c : Combining(c) = 0)

\* C29: the normalized text, and with it the shingles, of a text are those of
\* the text with its combining marks deleted.
C29_DiacriticKeepsTokens ==
    \A d \in JustRead :
        /\ normalize_text(doc_text[d]) = normalize_text(WithoutMarks(doc_text[d]))
        /\ doc_ngrams[d] = create_ngrams(normalize_text(WithoutMarks(doc_text[d])), ngrams)

(***************************************************************************)
(* find_duplicate_clusters on buckets that can hold a document more than   *)
(* once, so that the confirmed edges have self-edges as well as cycles.    *)
(* Each step is one iteration of a loop of the function, which nothing     *)
(* stops: the steps are taken as long as one is possible.                  *)
(***************************************************************************)
MaxBfsDocs == 3
MaxBfsBuckets == 2

\* the lists of documents, a document any number of times
RepeatingLists(docs, n) == UNION {[1..k -> docs] : k \in 1..n}

InitBfs ==
    /\ doc_order = SubSeq(DocIds, 1, MaxBfsDocs)
    /\ doc_ngrams \in [SeqToSet(doc_order) -> {{<<"a", " ", "b">>}, {}}]
    /\ \E lists \in UNION {[1..k -> RepeatingLists(SeqToSet(doc_order), MaxBfsDocs)] :
                              k \in 0..MaxBfsBuckets} :
          candidates = [k \in 1..Len(lists) |-> [key |-> <<k, <<>>>>, docs |-> lists[k]]]
    /\ jaccard_threshold \in Thresholds
    /\ pc = "confirm"
    /\ idx = 1
    /\ duplicates = <<>> /\ jaccard_calls = <<>>
    /\ processed = {} /\ clusters = <<>> /\ cluster = <<>> /\ queue = <<>>
    /\ fs = <<>> /\ fs0 = <<>> /\ unwritable = {} /\ mkdir_fails = FALSE
    /\ input_files = <<>> /\ output_directory = "out" /\ out_dir_made = FALSE
    /\ call = 1 /\ first_run = NoRun
    /\ num_hashes = 0 /\ num_bands = 0 /\ ngrams = 0
    /\ opened = <<>> /\ written = <<>> /\ log = <<>>
    /\ line_counter = EmptyCounter /\ unique_line_hashes = {}
    /\ doc_text = <<>> /\ doc_signatures = <<>>
    /\ buckets = <<>> /\ docs_to_remove = {}

SpecBfs == InitBfs /\ [][NextClusters]_vars /\ WF_vars(NextClusters)

\* the document is in the list once at most
OnceIn(list, doc) == Cardinality({i \in 1..Len(list) : list[i] = doc}) <= 1

\* the clusters of the run so far: the returned ones and the one being built
ClustersSoFar == clusters \o (IF pc = "bfs" THEN <<cluster>> ELSE <<>>)

\* a step of the loops that build the clusters adds at most one document to
\* processed, and appends that document, and nothing else, to the cluster
AddsOnce ==
    pc \in {"cluster", "bfs"} =>
        LET added == processed' \ processed
        IN /\ processed \subseteq processed'
           /\ Cardinality(added) <= 1
           /\ added = {} => cluster' = cluster
           /\ \A d \in added : cluster' = <<d>> \/ cluster' = Append(cluster, d)
           /\ Len(queue') > Len(queue) => added # {}

\* a document is at most once in at most one cluster
InOneCluster ==
    \A d \in SeqToSet(doc_order) :
        /\ \A k \in 1..Len(ClustersSoFar) : OnceIn(ClustersSoFar[k], d)
        /\ Cardinality({k \in 1..Len(ClustersSoFar) : d \in SeqToSet(ClustersSoFar[k])}) <= 1

\* C30: the loops that build the clusters end, for edge sets with cycles and
\* self-edges too: a step adds at most one document to processed, a document
\* that was not in it, and appends that document, and nothing else, to the
\* cluster; a document is at most once in at most one cluster; and the run
\* reaches the return of find_duplicate_clusters with an empty queue and
\* every document of doc_ngrams in processed.
C30_BfsTerminates ==
    /\ [][AddsOnce]_vars
    /\ []InOneCluster
    /\ <>(pc = "clustered" /\ queue = <<>> /\ processed = SeqToSet(doc_order))

\* the run has returned for an edge set with a self-edge and a cycle of three
\* documents
C30_Witness ==
    /\ pc = "clustered"
    /\ \E d \in DOMAIN duplicates : d \in duplicates[d]
    /\ \E a, b, c \in DOMAIN duplicates :
          /\ a # b /\ b # c /\ a # c
          /\ b \in duplicates[a] /\ c \in duplicates[b] /\ a \in duplicates[c]

====
